---- MODULE Spec2Model ----
(***************************************************************************)
(* A model of the bytecode interpreter of src/src/main.rs (struct EVM).    *)
(*                                                                         *)
(* A Word (U256) is its 32-byte big-endian encoding, a tuple of 32 bytes,  *)
(* so that 256-bit values are exact; the U256 operations the handlers call *)
(* (checked_add, checked_mul, <<, as_u64, ...) are computed on the bytes.  *)
(* A machine (struct EVM) is a record; a CALL/STATICCALL pushes the nested *)
(* machine on `frames` and the caller's handler resumes when the nested    *)
(* run() returns.  A Rust panic unwinds every frame: it sets `panic`.      *)
(***************************************************************************)
EXTENDS Integers, Sequences, FiniteSets, TLC

VARIABLES
    frames,   \* the machines of the call tree that are alive, innermost last
    panic     \* the message of the panic that unwound them, or NoPanic

vars == <<frames, panic>>

(***************************************************************************)
(* U256: 32 big-endian bytes                                               *)
(***************************************************************************)
WordBytes == 32

ZeroBytes(n) == [i \in 1..n |-> 0]

U256Zero == ZeroBytes(WordBytes)

\* the k low-order base-256 digits of n < 2^31, most significant first
NatBytes(n, k) ==
    [i \in 1..k |-> IF k - i > 3 THEN 0 ELSE (n \div (256 ^ (k - i))) % 256]

\* U256::from(n) for a machine integer n
FromNat(n) == NatBytes(n, WordBytes)

U256One == FromNat(1)

U256Max == [i \in 1..WordBytes |-> 255]

\* U256::from(&[u8]): big-endian, at most 32 bytes, zero-extended on the left
FromBigEndian(bs) == ZeroBytes(WordBytes - Len(bs)) \o bs

IsZero(w) == \A i \in 1..Len(w) : w[i] = 0

\* a < b on equal-length big-endian byte strings
LtBytes(a, b) ==
    LET d == {i \in 1..Len(a) : a[i] # b[i]}
    IN  d # {} /\ LET m == CHOOSE i \in d : \A j \in d : i <= j IN a[m] < b[m]

LeBytes(a, b) == ~LtBytes(b, a)

(* The carry chains below split their range in two halves (low-order half  *)
(* first), so that the evaluation never nests more than a few levels.      *)
RECURSIVE AddRange(_, _, _, _, _)
\* bytes lo..hi of a + b + cin, and the carry out of byte lo
AddRange(a, b, lo, hi, cin) ==
    IF lo = hi
    THEN LET s == a[lo] + b[lo] + cin
         IN  [value |-> <<s % 256>>, carry |-> s \div 256]
    ELSE LET mid   == (lo + hi) \div 2
             right == AddRange(a, b, mid + 1, hi, cin)
             left  == IF right.carry = 0 THEN AddRange(a, b, lo, mid, 0)
                      ELSE AddRange(a, b, lo, mid, 1)
         IN  [value |-> left.value \o right.value, carry |-> left.carry]

\* U256::overflowing_add
OverflowingAdd(a, b) ==
    LET r == AddRange(a, b, 1, Len(a), 0) IN [value |-> r.value, overflow |-> r.carry # 0]

RECURSIVE SubRange(_, _, _, _, _)
\* bytes lo..hi of a - b - bin, and the borrow out of byte lo
SubRange(a, b, lo, hi, bin) ==
    IF lo = hi
    THEN LET s == a[lo] - b[lo] - bin
         IN  [value |-> <<(s + 256) % 256>>, borrow |-> IF s < 0 THEN 1 ELSE 0]
    ELSE LET mid   == (lo + hi) \div 2
             right == SubRange(a, b, mid + 1, hi, bin)
             left  == IF right.borrow = 0 THEN SubRange(a, b, lo, mid, 0)
                      ELSE SubRange(a, b, lo, mid, 1)
         IN  [value |-> left.value \o right.value, borrow |-> left.borrow]

\* U256::overflowing_sub: a - b
OverflowingSub(a, b) ==
    LET r == SubRange(a, b, 1, Len(a), 0) IN [value |-> r.value, overflow |-> r.borrow # 0]

\* digit i (0 = least significant) of a big-endian byte string
LE(a, i) == IF i >= 0 /\ i < Len(a) THEN a[Len(a) - i] ELSE 0

RECURSIVE ColSum(_, _, _, _, _)
\* the sum of the digit products a_i * b_(k-i) for i in lo..hi
ColSum(a, b, k, lo, hi) ==
    IF lo = hi THEN LE(a, lo) * LE(b, k - lo)
    ELSE LET mid == (lo + hi) \div 2
         IN  ColSum(a, b, k, lo, mid) + ColSum(a, b, k, mid + 1, hi)

RECURSIVE CarryRange(_, _, _, _)
\* the digits of columns lo..hi (hi first) of the column sums cs, with carry cin
\* into column lo, and the carry out of column hi
CarryRange(cs, lo, hi, cin) ==
    IF lo = hi
    THEN LET s == cs[lo] + cin
         IN  [value |-> <<s % 256>>, carry |-> s \div 256]
    ELSE LET mid  == (lo + hi) \div 2
             low  == CarryRange(cs, lo, mid, cin)
             high == IF low.carry = 0 THEN CarryRange(cs, mid + 1, hi, 0)
                     ELSE CarryRange(cs, mid + 1, hi, low.carry)
         IN  [value |-> high.value \o low.value, carry |-> high.carry]

\* U256::overflowing_mul: the low 256 bits, and whether the high 256 are nonzero
OverflowingMul(a, b) ==
    IF IsZero(a) \/ IsZero(b) THEN [value |-> U256Zero, overflow |-> FALSE]
    ELSE LET cs == [k \in 0..(2 * WordBytes - 1) |-> ColSum(a, b, k, 0, WordBytes - 1)]
             p  == CarryRange(cs, 0, 2 * WordBytes - 1, 0).value
         IN  [value |-> SubSeq(p, WordBytes + 1, 2 * WordBytes),
              overflow |-> ~IsZero(SubSeq(p, 1, WordBytes))]

\* a (n bytes) times one digit d: n+1 bytes
MulSmall(a, d) ==
    LET cs == [k \in 0..(Len(a) - 1) |-> LE(a, k) * d]
        r  == CarryRange(cs, 0, Len(a) - 1, 0)
    IN  <<r.carry>> \o r.value

RECURSIVE QDigit(_, _, _, _)
\* the largest q in lo..lo+2*bit-1 with a*q <= r  (r has Len(a)+1 bytes)
QDigit(a, r, lo, bit) ==
    IF bit = 0 THEN lo
    ELSE IF LeBytes(MulSmall(a, lo + bit), r) THEN QDigit(a, r, lo + bit, bit \div 2)
         ELSE QDigit(a, r, lo, bit \div 2)

RECURSIVE DivRange(_, _, _, _, _)
\* schoolbook long division by a (a # 0) over the bytes lo..hi of b, entered
\* with the remainder rem of the bytes before lo
DivRange(b, a, lo, hi, rem) ==
    IF lo = hi
    THEN LET r == rem \o <<b[lo]>>
         IN  IF LtBytes(r, <<0>> \o a) THEN [quot |-> <<0>>, rem |-> Tail(r)]
             ELSE LET q == QDigit(a, r, 0, 128)
                  IN  [quot |-> <<q>>,
                       rem |-> Tail(OverflowingSub(r, MulSmall(a, q)).value)]
    ELSE LET mid  == (lo + hi) \div 2
             high == DivRange(b, a, lo, mid, rem)
             low  == IF IsZero(high.rem) THEN DivRange(b, a, mid + 1, hi, ZeroBytes(Len(a)))
                     ELSE DivRange(b, a, mid + 1, hi, high.rem)
         IN  [quot |-> high.quot \o low.quot, rem |-> low.rem]

\* U256::div_mod(b, a), a # 0
DivMod(b, a) == DivRange(b, a, 1, Len(b), ZeroBytes(Len(a)))

RECURSIVE BitAnd8(_, _, _)
BitAnd8(x, y, n) ==
    IF n = 0 THEN 0
    ELSE 2 * BitAnd8(x \div 2, y \div 2, n - 1) + (IF x % 2 = 1 /\ y % 2 = 1 THEN 1 ELSE 0)

\* the BitAnd / BitOr / BitXor / Not impls of U256, byte by byte
U256And(a, b) == [i \in 1..WordBytes |-> BitAnd8(a[i], b[i], 8)]

U256Or(a, b) == [i \in 1..WordBytes |-> a[i] + b[i] - BitAnd8(a[i], b[i], 8)]

U256Xor(a, b) == [i \in 1..WordBytes |-> a[i] + b[i] - 2 * BitAnd8(a[i], b[i], 8)]

U256Not(a) == [i \in 1..WordBytes |-> 255 - a[i]]

\* byte i of w, 0 outside the word
ByteAt(w, i) == IF i >= 1 /\ i <= WordBytes THEN w[i] ELSE 0

\* w << n for a machine integer n (bits shifted past bit 255 are lost)
ShlBits(w, n) ==
    LET bytes == n \div 8
        bits  == n % 8
    IN  [i \in 1..WordBytes |->
            IF n >= 8 * WordBytes THEN 0
            ELSE ((ByteAt(w, i + bytes) * (2 ^ bits)) % 256)
                 + (ByteAt(w, i + bytes + 1) \div (2 ^ (8 - bits)))]

\* w >> n for a machine integer n
ShrBits(w, n) ==
    LET bytes == n \div 8
        bits  == n % 8
    IN  [i \in 1..WordBytes |->
            IF n >= 8 * WordBytes THEN 0
            ELSE (ByteAt(w, i - bytes) \div (2 ^ bits))
                 + ((ByteAt(w, i - bytes - 1) * (2 ^ (8 - bits))) % 256)]

\* U256::fits_word: the value is below 2^64
FitsWord(w) == \A i \in 1..(WordBytes - 8) : w[i] = 0

\* the value is below 2^32
FitsU32(w) == \A i \in 1..(WordBytes - 4) : w[i] = 0

\* the value is below 2^31, the integers this model computes offsets with
IsSmall(w) == FitsU32(w) /\ w[WordBytes - 3] < 128

\* the integer value of a word below 2^31
SmallVal(w) ==
    ((w[WordBytes - 3] * 256 + w[WordBytes - 2]) * 256 + w[WordBytes - 1]) * 256 + w[WordBytes]

\* one round of the while loop of U256::overflowing_pow (square and multiply);
\* checked_pow only reads the overflow flag once it is set
PowStep(st) ==
    IF st.overflow \/ ~LtBytes(U256One, st.n) THEN st
    ELSE LET xx == OverflowingMul(st.x, st.x)
         IN  IF st.n[WordBytes] % 2 = 0
             THEN [x |-> xx.value, y |-> st.y, n |-> ShrBits(st.n, 1),
                   overflow |-> xx.overflow]
             ELSE LET xy == OverflowingMul(st.x, st.y)
                  IN  [x |-> xx.value, y |-> xy.value,
                       n |-> ShrBits(OverflowingSub(st.n, U256One).value, 1),
                       overflow |-> xy.overflow \/ xx.overflow]

RECURSIVE PowLoop(_, _)
\* at most `rounds` rounds of the loop (a power of two; 256 rounds bring any n to 1)
PowLoop(st, rounds) ==
    IF st.overflow \/ ~LtBytes(U256One, st.n) THEN st
    ELSE IF rounds = 1 THEN PowStep(st)
    ELSE LET half == PowLoop(st, rounds \div 2)
         IN  IF half.overflow THEN half ELSE PowLoop(half, rounds \div 2)

\* U256::overflowing_pow(base, expon)
OverflowingPow(base, expon) ==
    IF IsZero(expon) THEN [value |-> U256One, overflow |-> FALSE]
    ELSE LET st == PowLoop([x |-> base, y |-> U256One, n |-> expon, overflow |-> FALSE],
                           8 * WordBytes)
             r  == OverflowingMul(st.x, st.y)
         IN  [value |-> r.value, overflow |-> st.overflow \/ r.overflow]

(* checked_*: None (ok = FALSE) on overflow or on a zero divisor *)
CheckedAdd(a, b) ==
    LET r == OverflowingAdd(a, b) IN [ok |-> ~r.overflow, value |-> r.value]

CheckedMul(a, b) ==
    LET r == OverflowingMul(a, b) IN [ok |-> ~r.overflow, value |-> r.value]

CheckedSub(a, b) ==
    LET r == OverflowingSub(a, b) IN [ok |-> ~r.overflow, value |-> r.value]

CheckedDiv(a, b) ==
    IF IsZero(b) THEN [ok |-> FALSE, value |-> U256Zero]
    ELSE [ok |-> TRUE, value |-> DivMod(a, b).quot]

CheckedRem(a, b) ==
    IF IsZero(b) THEN [ok |-> FALSE, value |-> U256Zero]
    ELSE [ok |-> TRUE, value |-> DivMod(a, b).rem]

CheckedPow(a, b) ==
    LET r == OverflowingPow(a, b) IN [ok |-> ~r.overflow, value |-> r.value]

RECURSIVE ByteSum(_, _, _)
ByteSum(bs, lo, hi) ==
    IF lo > hi THEN 0
    ELSE IF lo = hi THEN (lo * bs[lo]) % 251
    ELSE LET mid == (lo + hi) \div 2
         IN  (ByteSum(bs, lo, mid) + ByteSum(bs, mid + 1, hi)) % 251

\* sha3::Keccak256 stands as "some 256-bit digest of the data": a fixed function
\* of the bytes, not the Keccak permutation
Keccak256(bs) ==
    [i \in 1..WordBytes |-> (197 + 31 * i + 7 * Len(bs) + i * ByteSum(bs, 1, Len(bs))) % 256]

(***************************************************************************)
(* Opcodes: the constants of naive_evm::op_code that main.rs imports, with  *)
(* the byte values of the EVM instruction set; is_state_changing_opcode    *)
(* spells out those of CREATE, CREATE2, SELFDESTRUCT, LOG0..LOG4 and SSTORE *)
(* and the hard-coded account code those of PUSH1, MSTORE and RETURN       *)
(***************************************************************************)
STOP == 0
ADD == 1
MUL == 2
SUB == 3
DIV == 4
SDIV == 5
MOD == 6
EXP == 10
LT == 16
GT == 17
EQ == 20
ISZERO == 21
AND == 22
OR == 23
XOR == 24
NOT == 25
BYTE == 26
SHL == 27
SHR == 28
SHA3 == 32
ADDRESS == 48
BALANCE == 49
ORIGIN == 50
CALLER == 51
CALLVALUE == 52
EXTCODESIZE == 59
EXTCODECOPY == 60
RETURNDATASIZE == 61
RETURNDATACOPY == 62
EXTCODEHASH == 63
BLOCKHASH == 64
COINBASE == 65
TIMESTAMP == 66
NUMBER == 67
PREVRANDAO == 68
GASLIMIT == 69
CHAINID == 70
SELFBALANCE == 71
BASEFEE == 72
POP == 80
MLOAD == 81
MSTORE == 82
MSTORE8 == 83
SLOAD == 84
SSTORE == 85
JUMP == 86
JUMPI == 87
PC == 88
MSIZE == 89
GAS == 90
JUMPDEST == 91
PUSH0 == 95
PUSH1 == 96
PUSH32 == 127
DUP1 == 128
DUP16 == 143
SWAP1 == 144
SWAP16 == 159
LOG0 == 160
LOG1 == 161
LOG2 == 162
LOG3 == 163
LOG4 == 164
CREATE == 240
CALL == 241
RETURN == 243
CREATE2 == 245
STATICCALL == 250
REVERT == 253
INVALID == 254
SELFDESTRUCT == 255

(***************************************************************************)
(* Block, Account, Transaction, EVM::init                                  *)
(***************************************************************************)
\* Block::default()
current_block ==
    [blockhash  |-> <<117, 39, 18, 63, 200, 119, 254, 117, 59, 49, 34, 220, 89, 38, 113, 180,
                      144, 46, 191, 43, 50, 93, 210, 199, 34, 74, 67, 192, 203, 238, 227, 202>>,
     coinbase   |-> <<0, 0, 0, 0, 0, 0, 0, 0, 0, 0, 0, 0, 56, 140, 129, 140,
                      168, 185, 37, 27, 57, 49, 49, 192, 138, 115, 106, 103, 204, 177, 146, 151>>,
     timestamp  |-> 1625900000,
     number     |-> 17871709,
     prevrandao |-> <<206, 18, 77, 238, 80, 19, 111, 63, 147, 241, 150, 103, 251, 65, 152, 198,
                      185, 78, 236, 186, 207, 163, 0, 70, 158, 82, 128, 1, 39, 87, 190, 148>>,
     gaslimit   |-> 30,
     chainid    |-> 1,
     selfbalance |-> 100,
     basefee    |-> 30]

\* 0x9bbfed6889322e016e0a02ee459d306fc19545d8
AddrA ==
    <<0, 0, 0, 0, 0, 0, 0, 0, 0, 0, 0, 0, 155, 191, 237, 104,
      137, 50, 46, 1, 110, 10, 2, 238, 69, 157, 48, 111, 193, 149, 69, 216>>

\* 0x1000000000000000000000000000000000000c42
AddrB ==
    <<0, 0, 0, 0, 0, 0, 0, 0, 0, 0, 0, 0, 16, 0, 0, 0,
      0, 0, 0, 0, 0, 0, 0, 0, 0, 0, 0, 0, 0, 0, 12, 66>>

\* the two accounts EVM::init hard-codes into every machine it builds
HardCodedAccounts ==
    (AddrA :> [balance |-> 100, nonce |-> 1, code |-> <<96, 0, 96, 0>>])
    @@ (AddrB :> [balance |-> 0, nonce |-> 1,
                  code |-> <<96, 66, 96, 0, 82, 96, 1, 96, 31, 243>>])

\* Transaction::default()
DefaultTransaction ==
    [nonce |-> 0, gas_price |-> 1, gas_limit |-> 21000, to |-> U256Zero, value |-> 0,
     data |-> U256Zero, caller |-> AddrA, origin |-> AddrB, this_addr |-> AddrB,
     v |-> 0, r |-> 0, s |-> 0]

\* where a machine stands: in the loop of run(), inside call()/static_call()
\* waiting for the nested run(), or past the loop (run() has returned)
InLoop == "loop"
InCall == "calling"
Returned == "returned"

NoCall == [kind |-> "none", mem_out_start |-> 0, mem_out_size |-> 0]

\* EVM::init(code, transaction, is_static)
\* a machine that starts with a word in its storage
init_with_storage(code, transaction, is_static) ==
    [code |-> code,
     pc |-> 0,
     stack |-> <<>>,
     memmory |-> <<>>,
     storage |-> [k \in {U256One} |-> U256One],
     vaild_jump_dest |-> {},
     account_db |-> HardCodedAccounts,
     transaction |-> transaction,
     log |-> <<>>,
     return_data |-> <<>>,
     success |-> TRUE,
     is_static |-> is_static,
     gas_used |-> 0,
     ctl |-> InLoop,
     pending |-> NoCall]

init(code, transaction, is_static) ==
    [code |-> code,
     pc |-> 0,
     stack |-> <<>>,
     memmory |-> <<>>,
     storage |-> <<>>,
     vaild_jump_dest |-> {},
     account_db |-> HardCodedAccounts,
     transaction |-> transaction,
     log |-> <<>>,
     return_data |-> <<>>,
     success |-> TRUE,
     is_static |-> is_static,
     gas_used |-> 0,
     ctl |-> InLoop,
     pending |-> NoCall]

\* GASCOST.get(&PUSH1)
GasCostPush == 3

(***************************************************************************)
(* Outcomes of a handler: the machine it leaves, the panic it raised (the  *)
(* message, or NoPanic), and the nested machine it started (at most one)   *)
(***************************************************************************)
NoPanic == "none"

Ok(m) == [m |-> m, panic |-> NoPanic, spawn |-> <<>>]

Fail(m, msg) == [m |-> m, panic |-> msg, spawn |-> <<>>]

StackUnderflow == "stack underflow"
CastOverflow == "Integer overflow when casting"
SliceRange == "range end index out of range for slice"
SliceLength == "source slice length does not match destination slice length"
MulOverflowPanic == "arithmetic operation overflow"
UnwrapNone == "called Option::unwrap on a None value"
StaticPanic == "State changing operation detected during STATICCALL"
OutOfGas == "out of gas"
NotImplemented == "not implemented"
InvalidJump == "invalid jump destination"
FromSliceTooLong == "assertion failed: slice longer than 32 bytes"
\* a request for more memory than this model holds (MemLimit): the host either
\* serves it or aborts
HostLimit == "memory allocation beyond the modelled limit"

(***************************************************************************)
(* Stack and memory primitives                                             *)
(***************************************************************************)
\* the largest memory (in bytes) a machine of this model holds
MemLimit == 4096

\* self.stack.push(w)
Push(m, w) == [m EXCEPT !.stack = Append(@, w)]

\* EVM::pop: the top of the stack, or zero when the stack is empty
pop(m) ==
    IF m.stack = <<>> THEN [m |-> m, value |-> U256Zero]
    ELSE [m |-> [m EXCEPT !.stack = SubSeq(@, 1, Len(@) - 1)],
          value |-> m.stack[Len(m.stack)]]

\* as_u64() / as_usize() panic on a word of 2^64 or more, as_u32() on 2^32 or more
AsU64Fails(w) == ~FitsWord(w)

AsU32Fails(w) == ~FitsU32(w)

\* a range offset..offset+size this model can hold in memory
Addressable(offw, sizew) ==
    IsSmall(offw) /\ IsSmall(sizew)
    /\ SmallVal(offw) <= MemLimit /\ SmallVal(sizew) <= MemLimit
    /\ SmallVal(offw) + SmallVal(sizew) <= MemLimit

\* memory extended with zero bytes to at least n bytes
Grow(mem, n) == IF Len(mem) < n THEN mem \o ZeroBytes(n - Len(mem)) ELSE mem

\* mem[off..off+Len(bs)].copy_from_slice(bs), the range being inside mem
WriteBytes(mem, off, bs) ==
    [i \in 1..Len(mem) |-> IF i > off /\ i <= off + Len(bs) THEN bs[i - off] ELSE mem[i]]

\* &mem[off..off+size]
Slice(mem, off, size) == SubSeq(mem, off + 1, off + size)

(***************************************************************************)
(* Arithmetic, comparison and bit handlers                                 *)
(***************************************************************************)
add(m) ==
    IF Len(m.stack) < 2 THEN Fail(m, StackUnderflow)
    ELSE LET a == pop(m)
             b == pop(a.m)
             res == CheckedAdd(a.value, b.value)
         IN  IF res.ok THEN Ok(Push(b.m, res.value)) ELSE Fail(b.m, "add overflow")

mul(m) ==
    IF Len(m.stack) < 2 THEN Fail(m, StackUnderflow)
    ELSE LET a == pop(m)
             b == pop(a.m)
             res == CheckedMul(a.value, b.value)
         IN  IF res.ok THEN Ok(Push(b.m, res.value)) ELSE Fail(b.m, "mul overflow")

\* SUB with its operands in the other order: a - b
sub_reversed(m) ==
    IF Len(m.stack) < 2 THEN Fail(m, StackUnderflow)
    ELSE LET a == pop(m)
             b == pop(a.m)
             res == CheckedSub(a.value, b.value)
         IN  IF res.ok THEN Ok(Push(b.m, res.value)) ELSE Fail(b.m, "sub overflow")

sub(m) ==
    IF Len(m.stack) < 2 THEN Fail(m, StackUnderflow)
    ELSE LET a == pop(m)
             b == pop(a.m)
             res == CheckedSub(b.value, a.value)
         IN  IF res.ok THEN Ok(Push(b.m, res.value)) ELSE Fail(b.m, "sub overflow")

div(m) ==
    IF Len(m.stack) < 2 THEN Fail(m, StackUnderflow)
    ELSE LET a == pop(m)
             b == pop(a.m)
             res == CheckedDiv(b.value, a.value)
         IN  IF res.ok THEN Ok(Push(b.m, res.value)) ELSE Fail(b.m, "div overflow")

sdiv(m) ==
    IF Len(m.stack) < 2 THEN Fail(m, StackUnderflow)
    ELSE LET a == pop(m)
             b == pop(a.m)
             res == CheckedDiv(b.value, a.value)
         IN  IF res.ok THEN Ok(Push(b.m, res.value)) ELSE Fail(b.m, "sdiv overflow")

mod(m) ==
    IF Len(m.stack) < 2 THEN Fail(m, StackUnderflow)
    ELSE LET a == pop(m)
             b == pop(a.m)
             res == CheckedRem(b.value, a.value)
         IN  IF res.ok THEN Ok(Push(b.m, res.value)) ELSE Fail(b.m, "mod overflow")

exp(m) ==
    IF Len(m.stack) < 2 THEN Fail(m, StackUnderflow)
    ELSE LET a == pop(m)
             b == pop(a.m)
             res == CheckedPow(b.value, a.value)
         IN  IF res.ok THEN Ok(Push(b.m, res.value)) ELSE Fail(b.m, "exp overflow")

lt(m) ==
    IF Len(m.stack) < 2 THEN Fail(m, StackUnderflow)
    ELSE LET a == pop(m)
             b == pop(a.m)
         IN  Ok(Push(b.m, IF LtBytes(b.value, a.value) THEN U256One ELSE U256Zero))

eq(m) ==
    IF Len(m.stack) < 2 THEN Fail(m, StackUnderflow)
    ELSE LET a == pop(m)
             b == pop(a.m)
         IN  Ok(Push(b.m, IF b.value = a.value THEN U256One ELSE U256Zero))

gt(m) ==
    IF Len(m.stack) < 2 THEN Fail(m, StackUnderflow)
    ELSE LET a == pop(m)
             b == pop(a.m)
         IN  Ok(Push(b.m, IF LtBytes(a.value, b.value) THEN U256One ELSE U256Zero))

iszero(m) ==
    IF m.stack = <<>> THEN Fail(m, StackUnderflow)
    ELSE LET a == pop(m)
         IN  Ok(Push(a.m, IF IsZero(a.value) THEN U256One ELSE U256Zero))

and_op(m) ==
    IF Len(m.stack) < 2 THEN Fail(m, StackUnderflow)
    ELSE LET a == pop(m)
             b == pop(a.m)
         IN  Ok(Push(b.m, U256And(a.value, b.value)))

or(m) ==
    IF Len(m.stack) < 2 THEN Fail(m, StackUnderflow)
    ELSE LET a == pop(m)
             b == pop(a.m)
         IN  Ok(Push(b.m, U256Or(a.value, b.value)))

xor(m) ==
    IF Len(m.stack) < 2 THEN Fail(m, StackUnderflow)
    ELSE LET a == pop(m)
             b == pop(a.m)
         IN  Ok(Push(b.m, U256Xor(a.value, b.value)))

not(m) ==
    IF m.stack = <<>> THEN Fail(m, StackUnderflow)
    ELSE LET a == pop(m) IN Ok(Push(a.m, U256Not(a.value)))

\* the Shl<U256> / Shr<U256> impls: the shift count goes through as_usize();
\* a count of 256 or more shifts every bit out
U256Shl(w, shift) ==
    IF IsSmall(shift) THEN ShlBits(w, SmallVal(shift)) ELSE U256Zero

U256Shr(w, shift) ==
    IF IsSmall(shift) THEN ShrBits(w, SmallVal(shift)) ELSE U256Zero

shl(m) ==
    IF Len(m.stack) < 2 THEN Fail(m, StackUnderflow)
    ELSE LET a == pop(m)
             b == pop(a.m)
         IN  IF AsU64Fails(a.value) THEN Fail(b.m, CastOverflow)
             ELSE Ok(Push(b.m, U256Shl(b.value, a.value)))

shr(m) ==
    IF Len(m.stack) < 2 THEN Fail(m, StackUnderflow)
    ELSE LET a == pop(m)
             b == pop(a.m)
         IN  IF AsU64Fails(a.value) THEN Fail(b.m, CastOverflow)
             ELSE Ok(Push(b.m, U256Shr(b.value, a.value)))

\* (b >> (a * 8)) & 0xff: the Mul impl panics on overflow, then Shr as above
byte(m) ==
    IF Len(m.stack) < 2 THEN Fail(m, StackUnderflow)
    ELSE LET a == pop(m)
             b == pop(a.m)
             bits == OverflowingMul(a.value, FromNat(8))
         IN  IF bits.overflow THEN Fail(b.m, MulOverflowPanic)
             ELSE IF AsU64Fails(bits.value) THEN Fail(b.m, CastOverflow)
             ELSE Ok(Push(b.m, U256And(U256Shr(b.value, bits.value), FromNat(255))))

(***************************************************************************)
(* Memory and storage handlers                                             *)
(***************************************************************************)
\* offset + n bytes fit the modelled memory
Reaches(offw, n) == IsSmall(offw) /\ SmallVal(offw) <= MemLimit - n

mstore(m) ==
    IF Len(m.stack) < 2 THEN Fail(m, StackUnderflow)
    ELSE LET o == pop(m)
             v == pop(o.m)
         IN  IF AsU64Fails(o.value) THEN Fail(o.m, CastOverflow)
             ELSE IF ~Reaches(o.value, WordBytes) THEN Fail(v.m, HostLimit)
             ELSE LET offset == SmallVal(o.value)
                      mem == Grow(v.m.memmory, offset + WordBytes)
                  IN  Ok([v.m EXCEPT !.memmory = WriteBytes(mem, offset, v.value)])

\* the destination is 32 bytes long and the source res[24..32] is 8: the
\* copy_from_slice panics on the length mismatch once memory has been extended
mstore8(m) ==
    IF Len(m.stack) < 2 THEN Fail(m, StackUnderflow)
    ELSE LET o == pop(m)
             v == pop(o.m)
         IN  IF AsU64Fails(o.value) THEN Fail(o.m, CastOverflow)
             ELSE IF ~Reaches(o.value, WordBytes) THEN Fail(v.m, HostLimit)
             ELSE LET offset == SmallVal(o.value)
                      mem == Grow(v.m.memmory, offset + WordBytes)
                      src == SubSeq(v.value, 25, 32)
                  IN  IF Len(src) # WordBytes
                      THEN Fail([v.m EXCEPT !.memmory = mem], SliceLength)
                      ELSE Ok([v.m EXCEPT !.memmory = WriteBytes(mem, offset, src)])

mload(m) ==
    IF m.stack = <<>> THEN Fail(m, StackUnderflow)
    ELSE LET o == pop(m)
         IN  IF AsU32Fails(o.value) THEN Fail(o.m, CastOverflow)
             ELSE IF ~Reaches(o.value, WordBytes) THEN Fail(o.m, HostLimit)
             ELSE LET offset == SmallVal(o.value)
                      mem == Grow(o.m.memmory, WordBytes + offset)
                  IN  Ok(Push([o.m EXCEPT !.memmory = mem],
                              FromBigEndian(Slice(mem, offset, WordBytes))))

msize(m) == Ok(Push(m, FromNat(Len(m.memmory))))

\* self.storage.insert(key, value)
Insert(storage, key, value) ==
    [k \in DOMAIN storage \cup {key} |-> IF k = key THEN value ELSE storage[k]]

\* an SSTORE that pops the value first and the key second
sstore_value_first(m) ==
    IF Len(m.stack) < 2 THEN Fail(m, StackUnderflow)
    ELSE LET value == pop(m)
             key == pop(value.m)
         IN  Ok([key.m EXCEPT !.storage = Insert(@, key.value, value.value)])

sstore(m) ==
    IF Len(m.stack) < 2 THEN Fail(m, StackUnderflow)
    ELSE LET key == pop(m)
             value == pop(key.m)
         IN  Ok([value.m EXCEPT !.storage = Insert(@, key.value, value.value)])

sload(m) ==
    IF m.stack = <<>> THEN Fail(m, StackUnderflow)
    ELSE LET key == pop(m)
         IN  Ok(Push(key.m, IF key.value \in DOMAIN key.m.storage
                            THEN key.m.storage[key.value] ELSE U256Zero))

\* prints only
stop(m) == Ok(m)

(***************************************************************************)
(* Jumps                                                                   *)
(***************************************************************************)
\* a scan that takes the bytes after a PUSH for opcodes
ScanStepNoSkip(code, st) ==
    IF st.pc >= Len(code) THEN st
    ELSE IF code[st.pc + 1] = JUMPDEST
         THEN [pc |-> st.pc + 1, dests |-> st.dests \cup {st.pc}]
         ELSE [pc |-> st.pc + 1, dests |-> st.dests]

\* one round of the while loop of find_valid_jump_destinations
ScanStep(code, st) ==
    IF st.pc >= Len(code) THEN st
    ELSE LET op == code[st.pc + 1]
         IN  IF op = JUMPDEST THEN [pc |-> st.pc + 1, dests |-> st.dests \cup {st.pc}]
             ELSE IF op >= PUSH1 /\ op <= PUSH32
                  THEN [pc |-> st.pc + (op - PUSH1 + 1) + 1, dests |-> st.dests]
                  ELSE [pc |-> st.pc + 1, dests |-> st.dests]

RECURSIVE ScanLoop(_, _, _)
\* at most `rounds` rounds of the loop (a power of two)
ScanLoop(code, st, rounds) ==
    IF st.pc >= Len(code) THEN st
    ELSE IF rounds = 1 THEN ScanStep(code, st)
    ELSE LET half == ScanLoop(code, st, rounds \div 2)
         IN  IF half.pc >= Len(code) THEN half ELSE ScanLoop(code, half, rounds \div 2)

\* the longest code the scan is run on
MaxCodeLen == 256

find_valid_jump_destinations(m) ==
    [m EXCEPT !.vaild_jump_dest =
        @ \cup ScanLoop(m.code, [pc |-> 0, dests |-> {}], MaxCodeLen).dests]

jump_dest(m) == Ok(m)

jump(m) ==
    IF m.stack = <<>> THEN Fail(m, StackUnderflow)
    ELSE LET d == pop(m)
         IN  IF AsU64Fails(d.value) THEN Fail(d.m, CastOverflow)
             ELSE IF ~IsSmall(d.value) \/ SmallVal(d.value) >= Len(d.m.code)
                  THEN Fail(d.m, InvalidJump)
             ELSE IF SmallVal(d.value) \notin d.m.vaild_jump_dest THEN Fail(d.m, InvalidJump)
             ELSE Ok([d.m EXCEPT !.pc = SmallVal(d.value)])

jumpi(m) ==
    IF Len(m.stack) < 2 THEN Fail(m, StackUnderflow)
    ELSE LET d == pop(m)
             op == pop(d.m)
         IN  IF AsU64Fails(d.value) THEN Fail(d.m, CastOverflow)
             ELSE IF AsU64Fails(op.value) THEN Fail(op.m, CastOverflow)
             ELSE IF ~IsZero(op.value)
                  THEN IF ~IsSmall(d.value) \/ SmallVal(d.value) \notin op.m.vaild_jump_dest
                       THEN Fail(op.m, InvalidJump)
                       ELSE Ok([op.m EXCEPT !.pc = SmallVal(d.value)])
                  ELSE Ok(op.m)

\* EVM::pc; run() has no arm that calls it
pc(m) == Ok(Push(m, FromNat(m.pc)))

(***************************************************************************)
(* Block and context reads                                                 *)
(***************************************************************************)
blockhash(m) ==
    IF m.stack = <<>> THEN Fail(m, StackUnderflow)
    ELSE LET n == pop(m)
         IN  IF AsU64Fails(n.value) THEN Fail(n.m, CastOverflow)
             ELSE IF n.value = FromNat(current_block.number)
                  THEN Ok(Push(n.m, current_block.blockhash))
                  ELSE Ok(Push(n.m, U256Zero))

coinbase(m) == Ok(Push(m, current_block.coinbase))

timestamp(m) == Ok(Push(m, FromNat(current_block.timestamp)))

number(m) == Ok(Push(m, FromNat(current_block.number)))

prevrandao(m) == Ok(Push(m, current_block.prevrandao))

gaslimit(m) == Ok(Push(m, FromNat(current_block.gaslimit)))

chainid(m) == Ok(Push(m, FromNat(current_block.chainid)))

selfbalance(m) == Ok(Push(m, FromNat(current_block.selfbalance)))

basefee(m) == Ok(Push(m, FromNat(current_block.basefee)))

address(m) == Ok(Push(m, m.transaction.this_addr))

origin(m) == Ok(Push(m, m.transaction.origin))

caller(m) == Ok(Push(m, m.transaction.caller))

callvalue(m) == Ok(Push(m, FromNat(m.transaction.value)))

\* gas_limit - gas_used
\* gas that reports the limit, whatever has been used
gas_of_limit(m) == Ok(Push(m, FromNat(m.transaction.gas_limit)))

gas(m) == Ok(Push(m, FromNat(m.transaction.gas_limit - m.gas_used)))

(***************************************************************************)
(* DUP, SWAP, PUSH                                                         *)
(***************************************************************************)
\* stack.get(len - position): with len < position the subtraction panics in a
\* build that checks overflow (overflow_checks, the debug profile), and
\* otherwise wraps to an index get() does not find
dup(m, postion, overflow_checks) ==
    IF Len(m.stack) < postion
    THEN Fail(m, IF overflow_checks THEN "attempt to subtract with overflow"
                 ELSE StackUnderflow)
    ELSE IF postion = 0 THEN Fail(m, StackUnderflow)
    ELSE Ok(Push(m, m.stack[Len(m.stack) - postion + 1]))

swap(m, postion) ==
    IF Len(m.stack) < postion + 1 THEN Fail(m, StackUnderflow)
    ELSE LET idx1 == Len(m.stack)
             idx2 == Len(m.stack) - postion
         IN  Ok([m EXCEPT !.stack = [@ EXCEPT ![idx1] = m.stack[idx2],
                                              ![idx2] = m.stack[idx1]]])

\* push that steps over a payload the code does not hold
push_past_end(m, size) ==
    IF m.pc + size > Len(m.code) THEN Ok([Push(m, U256Zero) EXCEPT !.pc = @ + size])
    ELSE LET data == Slice(m.code, m.pc, size)
         IN  Ok([Push(m, FromBigEndian(data)) EXCEPT !.pc = @ + size,
                                                     !.gas_used = @ + GasCostPush])

\* push that leaves the program counter on the first byte of its payload
push_without_advance(m, size) ==
    IF m.pc + size > Len(m.code) THEN Fail(m, SliceRange)
    ELSE LET data == Slice(m.code, m.pc, size)
         IN  Ok([Push(m, FromBigEndian(data)) EXCEPT !.gas_used = @ + GasCostPush])

push(m, size) ==
    IF m.pc + size > Len(m.code) THEN Fail(m, SliceRange)
    ELSE LET data == Slice(m.code, m.pc, size)
         IN  Ok([Push(m, FromBigEndian(data)) EXCEPT !.pc = @ + size,
                                                     !.gas_used = @ + GasCostPush])

push0(m) == Ok(Push(m, U256Zero))

\* POP => { self.pop(); }
pop_op(m) == Ok(pop(m).m)

(***************************************************************************)
(* Hash, account reads, logs, return data                                  *)
(***************************************************************************)
sha3(m) ==
    IF m.stack = <<>> THEN Fail(m, StackUnderflow)
    ELSE LET o == pop(m)
             sz == pop(o.m)
         IN  IF AsU64Fails(o.value) THEN Fail(o.m, CastOverflow)
             ELSE IF AsU64Fails(sz.value) THEN Fail(sz.m, CastOverflow)
             ELSE IF ~Addressable(o.value, sz.value)
                     \/ SmallVal(o.value) + SmallVal(sz.value) > Len(sz.m.memmory)
                  THEN Fail(sz.m, SliceRange)
             ELSE Ok(Push(sz.m, Keccak256(Slice(sz.m.memmory, SmallVal(o.value),
                                                SmallVal(sz.value)))))

balance(m) ==
    IF m.stack = <<>> THEN Fail(m, StackUnderflow)
    ELSE LET a == pop(m)
         IN  IF a.value \notin DOMAIN a.m.account_db THEN Fail(a.m, UnwrapNone)
             ELSE Ok(Push(a.m, FromNat(a.m.account_db[a.value].balance)))

extcodesize(m) ==
    IF m.stack = <<>> THEN Fail(m, StackUnderflow)
    ELSE LET a == pop(m)
         IN  IF a.value \notin DOMAIN a.m.account_db THEN Fail(a.m, UnwrapNone)
             ELSE Ok(Push(a.m, FromNat(Len(a.m.account_db[a.value].code))))

extcodecopy(m) ==
    IF Len(m.stack) < 4 THEN Fail(m, StackUnderflow)
    ELSE LET a  == pop(m)
             mo == pop(a.m)
             co == pop(mo.m)
             ln == pop(co.m)
         IN  IF AsU64Fails(mo.value) THEN Fail(mo.m, CastOverflow)
             ELSE IF AsU64Fails(co.value) THEN Fail(co.m, CastOverflow)
             ELSE IF AsU64Fails(ln.value) THEN Fail(ln.m, CastOverflow)
             ELSE IF a.value \notin DOMAIN ln.m.account_db THEN Fail(ln.m, UnwrapNone)
             ELSE IF ~Addressable(co.value, ln.value)
                     \/ SmallVal(co.value) + SmallVal(ln.value)
                            > Len(ln.m.account_db[a.value].code)
                  THEN Fail(ln.m, SliceRange)
             ELSE IF ~Addressable(mo.value, ln.value) THEN Fail(ln.m, HostLimit)
             ELSE LET code == Slice(ln.m.account_db[a.value].code, SmallVal(co.value),
                                    SmallVal(ln.value))
                      mem  == Grow(ln.m.memmory, SmallVal(mo.value) + SmallVal(ln.value))
                  IN  Ok([ln.m EXCEPT !.memmory = WriteBytes(mem, SmallVal(mo.value), code)])

extcodehash(m) ==
    IF m.stack = <<>> THEN Fail(m, StackUnderflow)
    ELSE LET a == pop(m)
         IN  IF a.value \notin DOMAIN a.m.account_db THEN Fail(a.m, UnwrapNone)
             ELSE Ok(Push(a.m, Keccak256(a.m.account_db[a.value].code)))

\* the most topics a log entry of this model holds
MaxTopics == 8

\* n times self.pop()
PopMany(m, n) ==
    [m |-> [m EXCEPT !.stack = IF n >= Len(@) THEN <<>> ELSE SubSeq(@, 1, Len(@) - n)],
     values |-> [i \in 1..n |-> IF i <= Len(m.stack) THEN m.stack[Len(m.stack) - i + 1]
                                ELSE U256Zero]]

\* the parameter num_topics is only read by the depth check: the third pop
\* shadows it
log(m, num_topics) ==
    IF Len(m.stack) < 2 + num_topics THEN Fail(m, StackUnderflow)
    ELSE LET o == pop(m)
             l == pop(o.m)
             n == pop(l.m)
         IN  IF AsU32Fails(o.value) THEN Fail(o.m, CastOverflow)
             ELSE IF AsU32Fails(l.value) THEN Fail(l.m, CastOverflow)
             ELSE IF AsU64Fails(n.value) THEN Fail(n.m, CastOverflow)
             ELSE IF ~IsSmall(n.value) \/ SmallVal(n.value) > MaxTopics
                  THEN Fail(n.m, HostLimit)
             ELSE LET t == PopMany(n.m, SmallVal(n.value))
                  IN  IF ~Addressable(o.value, l.value)
                         \/ SmallVal(o.value) + SmallVal(l.value) > Len(t.m.memmory)
                      THEN Fail(t.m, SliceRange)
                      ELSE IF SmallVal(l.value) > WordBytes THEN Fail(t.m, FromSliceTooLong)
                      ELSE Ok([t.m EXCEPT !.log = Append(@,
                                [address |-> t.m.transaction.this_addr,
                                 data |-> FromBigEndian(Slice(t.m.memmory, SmallVal(o.value),
                                                              SmallVal(l.value))),
                                 topics |-> t.values])])

\* a RETURN that clears the success flag as REVERT does
return_clearing_success(m) ==
    IF Len(m.stack) < 2 THEN Fail(m, StackUnderflow)
    ELSE LET o == pop(m)
             l == pop(o.m)
         IN  IF AsU32Fails(o.value) THEN Fail(o.m, CastOverflow)
             ELSE IF AsU32Fails(l.value) THEN Fail(l.m, CastOverflow)
             ELSE IF ~Addressable(o.value, l.value) THEN Fail(l.m, HostLimit)
             ELSE LET mem == Grow(l.m.memmory, SmallVal(o.value) + SmallVal(l.value))
                  IN  Ok([l.m EXCEPT !.memmory = mem,
                                     !.return_data = Slice(mem, SmallVal(o.value),
                                                           SmallVal(l.value)),
                                     !.success = FALSE])

return_op(m) ==
    IF Len(m.stack) < 2 THEN Fail(m, StackUnderflow)
    ELSE LET o == pop(m)
             l == pop(o.m)
         IN  IF AsU32Fails(o.value) THEN Fail(o.m, CastOverflow)
             ELSE IF AsU32Fails(l.value) THEN Fail(l.m, CastOverflow)
             ELSE IF ~Addressable(o.value, l.value) THEN Fail(l.m, HostLimit)
             ELSE LET mem == Grow(l.m.memmory, SmallVal(o.value) + SmallVal(l.value))
                  IN  Ok([l.m EXCEPT !.memmory = mem,
                                     !.return_data = Slice(mem, SmallVal(o.value),
                                                           SmallVal(l.value))])

return_data_size(m) == Ok(Push(m, FromNat(Len(m.return_data))))

return_data_copy(m) ==
    IF Len(m.stack) < 3 THEN Fail(m, StackUnderflow)
    ELSE LET mo == pop(m)
             ro == pop(mo.m)
             ln == pop(ro.m)
         IN  IF AsU32Fails(mo.value) THEN Fail(mo.m, CastOverflow)
             ELSE IF AsU32Fails(ro.value) THEN Fail(ro.m, CastOverflow)
             ELSE IF AsU32Fails(ln.value) THEN Fail(ln.m, CastOverflow)
             ELSE IF ~Addressable(ro.value, ln.value)
                     \/ SmallVal(ro.value) + SmallVal(ln.value) > Len(ln.m.return_data)
                  THEN Fail(ln.m, "return data too short")
             ELSE IF ~Addressable(mo.value, ln.value) THEN Fail(ln.m, HostLimit)
             ELSE LET mem == Grow(ln.m.memmory, SmallVal(mo.value) + SmallVal(ln.value))
                  IN  Ok([ln.m EXCEPT !.memmory =
                            WriteBytes(mem, SmallVal(mo.value),
                                       Slice(ln.m.return_data, SmallVal(ro.value),
                                             SmallVal(ln.value)))])

revert(m) ==
    IF Len(m.stack) < 2 THEN Fail(m, StackUnderflow)
    ELSE LET o == pop(m)
             l == pop(o.m)
         IN  IF AsU32Fails(o.value) THEN Fail(o.m, CastOverflow)
             ELSE IF AsU32Fails(l.value) THEN Fail(l.m, CastOverflow)
             ELSE IF ~Addressable(o.value, l.value) THEN Fail(l.m, HostLimit)
             ELSE LET mem == Grow(l.m.memmory, SmallVal(o.value) + SmallVal(l.value))
                  IN  Ok([l.m EXCEPT !.memmory = mem,
                                     !.return_data = Slice(mem, SmallVal(o.value),
                                                           SmallVal(l.value)),
                                     !.success = FALSE])

invalid(m) == Ok([m EXCEPT !.success = FALSE])

(***************************************************************************)
(* Message calls                                                           *)
(***************************************************************************)
\* low_u32(): the low four bytes
LowU32IsZero(w) == \A i \in (WordBytes - 3)..WordBytes : w[i] = 0

\* low_u32() as u64 is at least 2^31: more than any balance of this model
LowU32Huge(w) == w[WordBytes - 3] >= 128

LowU32(w) == SmallVal(w)

\* the EVM a handler leaves waiting for the nested run()
Calling(m, kind, out_start, out_size) ==
    [m EXCEPT !.ctl = InCall,
              !.pending = [kind |-> kind, mem_out_start |-> out_start,
                           mem_out_size |-> out_size]]

\* EVM::call up to evm_call.run()
call(m) ==
    IF Len(m.stack) < 7 THEN Fail(m, StackUnderflow)
    ELSE LET g  == pop(m)
             to == pop(g.m)
             v  == pop(to.m)
             is == pop(v.m)
             iz == pop(is.m)
             os == pop(iz.m)
             oz == pop(os.m)
         IN  IF AsU64Fails(g.value) THEN Fail(g.m, CastOverflow)
             ELSE IF v.m.is_static /\ ~LowU32IsZero(v.value)
                  THEN Fail([v.m EXCEPT !.success = FALSE], StaticPanic)
             ELSE IF AsU64Fails(is.value) THEN Fail(is.m, CastOverflow)
             ELSE IF AsU64Fails(iz.value) THEN Fail(iz.m, CastOverflow)
             ELSE IF AsU64Fails(os.value) THEN Fail(os.m, CastOverflow)
             ELSE IF AsU64Fails(oz.value) THEN Fail(oz.m, CastOverflow)
             ELSE IF ~Addressable(is.value, iz.value) THEN Fail(oz.m, HostLimit)
             ELSE
             LET mem  == Grow(oz.m.memmory, SmallVal(is.value) + SmallVal(iz.value))
                 m1   == [oz.m EXCEPT !.memmory = mem]
                 data == Slice(mem, SmallVal(is.value), SmallVal(iz.value))
                 src  == m1.transaction.caller
             IN  IF src \notin DOMAIN m1.account_db THEN Fail(m1, UnwrapNone)
                 ELSE IF LowU32Huge(v.value) \/ m1.account_db[src].balance < LowU32(v.value)
                      THEN Ok(Push([m1 EXCEPT !.success = FALSE], U256Zero))
                 ELSE
                 LET value == LowU32(v.value)
                     m2 == [m1 EXCEPT !.account_db[src].balance = @ - value]
                 IN  IF to.value \notin DOMAIN m2.account_db THEN Fail(m2, UnwrapNone)
                     ELSE
                     LET m3 == [m2 EXCEPT !.account_db[to.value].balance = @ + value]
                         txn == [DefaultTransaction EXCEPT
                                    !.data = FromBigEndian(data),
                                    !.value = value,
                                    !.caller = m3.transaction.this_addr,
                                    !.origin = m3.transaction.origin,
                                    !.gas_price = m3.transaction.gas_price,
                                    !.gas_limit = m3.transaction.gas_limit]
                     IN  IF Len(data) > WordBytes THEN Fail(m3, FromSliceTooLong)
                         ELSE IF ~Addressable(os.value, oz.value) THEN Fail(m3, HostLimit)
                         ELSE [m |-> Calling(m3, "call", SmallVal(os.value),
                                             SmallVal(oz.value)),
                               panic |-> NoPanic,
                               spawn |-> <<init(m3.account_db[to.value].code, txn, FALSE)>>]

\* EVM::call after evm_call.run() has returned
call_resume(m, evm_call) ==
    LET start == m.pending.mem_out_start
        size  == m.pending.mem_out_size
        mem   == Grow(m.memmory, size + start)
        m1    == [m EXCEPT !.memmory = mem, !.ctl = InLoop, !.pending = NoCall]
    IN  IF Len(evm_call.return_data) # size THEN Fail(m1, SliceLength)
        ELSE LET m2 == [m1 EXCEPT !.memmory = WriteBytes(mem, start, evm_call.return_data)]
             IN  Ok(Push(m2, IF evm_call.success THEN U256One ELSE U256Zero))

is_state_changing_opcode(opcode) ==
    opcode \in {CREATE, CREATE2, SELFDESTRUCT, LOG0, LOG1, LOG2, LOG3, LOG4, SSTORE}

\* a STATICCALL whose nested machine takes the mode of its parent
static_call_inherits_mode(m) ==
    IF Len(m.stack) < 6 THEN Fail(m, StackUnderflow)
    ELSE LET g  == pop(m)
             to == pop(g.m)
             is == pop(to.m)
             iz == pop(is.m)
             os == pop(iz.m)
             oz == pop(os.m)
         IN  IF AsU64Fails(g.value) THEN Fail(g.m, CastOverflow)
             ELSE IF AsU64Fails(is.value) THEN Fail(is.m, CastOverflow)
             ELSE IF AsU64Fails(iz.value) THEN Fail(iz.m, CastOverflow)
             ELSE IF AsU64Fails(os.value) THEN Fail(os.m, CastOverflow)
             ELSE IF AsU64Fails(oz.value) THEN Fail(oz.m, CastOverflow)
             ELSE IF ~Addressable(is.value, iz.value) THEN Fail(oz.m, HostLimit)
             ELSE
             LET mem  == Grow(oz.m.memmory, SmallVal(is.value) + SmallVal(iz.value))
                 m1   == [oz.m EXCEPT !.memmory = mem]
                 data == Slice(mem, SmallVal(is.value), SmallVal(iz.value))
                 ctx  == [DefaultTransaction EXCEPT
                            !.data = FromBigEndian(data),
                            !.value = 0,
                            !.caller = m1.transaction.this_addr,
                            !.origin = m1.transaction.origin,
                            !.this_addr = to.value,
                            !.gas_price = m1.transaction.gas_price,
                            !.gas_limit = m1.transaction.gas_limit]
             IN  IF to.value \notin DOMAIN m1.account_db THEN Fail(m1, UnwrapNone)
                 ELSE IF Len(data) > WordBytes THEN Fail(m1, FromSliceTooLong)
                 ELSE IF ~Addressable(os.value, oz.value) THEN Fail(m1, HostLimit)
                 ELSE [m |-> Calling(m1, "static_call", SmallVal(os.value),
                                     SmallVal(oz.value)),
                       panic |-> NoPanic,
                       spawn |-> <<init(m1.account_db[to.value].code, ctx, m.is_static)>>]

\* EVM::static_call up to evm_staticcall.run()
static_call(m) ==
    IF Len(m.stack) < 6 THEN Fail(m, StackUnderflow)
    ELSE LET g  == pop(m)
             to == pop(g.m)
             is == pop(to.m)
             iz == pop(is.m)
             os == pop(iz.m)
             oz == pop(os.m)
         IN  IF AsU64Fails(g.value) THEN Fail(g.m, CastOverflow)
             ELSE IF AsU64Fails(is.value) THEN Fail(is.m, CastOverflow)
             ELSE IF AsU64Fails(iz.value) THEN Fail(iz.m, CastOverflow)
             ELSE IF AsU64Fails(os.value) THEN Fail(os.m, CastOverflow)
             ELSE IF AsU64Fails(oz.value) THEN Fail(oz.m, CastOverflow)
             ELSE IF ~Addressable(is.value, iz.value) THEN Fail(oz.m, HostLimit)
             ELSE
             LET mem  == Grow(oz.m.memmory, SmallVal(is.value) + SmallVal(iz.value))
                 m1   == [oz.m EXCEPT !.memmory = mem]
                 data == Slice(mem, SmallVal(is.value), SmallVal(iz.value))
                 ctx  == [DefaultTransaction EXCEPT
                            !.data = FromBigEndian(data),
                            !.value = 0,
                            !.caller = m1.transaction.this_addr,
                            !.origin = m1.transaction.origin,
                            !.this_addr = to.value,
                            !.gas_price = m1.transaction.gas_price,
                            !.gas_limit = m1.transaction.gas_limit]
             IN  IF to.value \notin DOMAIN m1.account_db THEN Fail(m1, UnwrapNone)
                 ELSE IF Len(data) > WordBytes THEN Fail(m1, FromSliceTooLong)
                 ELSE IF ~Addressable(os.value, oz.value) THEN Fail(m1, HostLimit)
                 ELSE [m |-> Calling(m1, "static_call", SmallVal(os.value),
                                     SmallVal(oz.value)),
                       panic |-> NoPanic,
                       spawn |-> <<init(m1.account_db[to.value].code, ctx, TRUE)>>]

\* EVM::static_call after evm_staticcall.run() has returned
static_call_resume(m, evm_staticcall) ==
    LET start == m.pending.mem_out_start
        size  == m.pending.mem_out_size
        mem   == Grow(m.memmory, start + size)
        m1    == [m EXCEPT !.memmory = mem, !.ctl = InLoop, !.pending = NoCall]
    IN  IF Len(evm_staticcall.return_data) # size THEN Fail(m1, SliceLength)
        ELSE LET m2 == [m1 EXCEPT !.memmory =
                            WriteBytes(mem, start, evm_staticcall.return_data)]
             IN  Ok(Push(m2, IF evm_staticcall.success THEN U256One ELSE U256Zero))

\* the account at addr is created when absent; its balance is read, zeroed and
\* added back to the same account
selfdestruct(m) ==
    IF m.stack = <<>> THEN Fail(m, StackUnderflow)
    ELSE LET a == pop(m)
             db == IF a.value \in DOMAIN a.m.account_db THEN a.m.account_db
                   ELSE [k \in DOMAIN a.m.account_db \cup {a.value} |->
                            IF k = a.value THEN [balance |-> 0, nonce |-> 0, code |-> <<>>]
                            ELSE a.m.account_db[k]]
             bal == db[a.value].balance
             zeroed == [db EXCEPT ![a.value].balance = 0]
         IN  Ok([a.m EXCEPT !.account_db = [zeroed EXCEPT ![a.value].balance = @ + bal]])

(***************************************************************************)
(* EVM::run: the dispatch loop                                             *)
(***************************************************************************)
\* the innermost machine, the one whose run() is executing
Top == frames[Len(frames)]

\* EVM::next_instruction: the byte at pc is returned (Op below) and pc advances
next_instruction(m) == [m EXCEPT !.pc = @ + 1]

\* while self.pc < self.code.len()
Running ==
    /\ panic = NoPanic
    /\ Top.ctl = InLoop
    /\ Top.pc < Len(Top.code)

\* let op = self.next_instruction(): the opcode the loop fetches next, and the
\* machine once it is fetched
Op == Top.code[Top.pc + 1]

Fetched == next_instruction(Top)

\* the check with the comparison off by one: out of gas once the limit is reached
GasCheckAtLimit(out) ==
    IF out.panic = NoPanic /\ out.m.ctl = InLoop
       /\ out.m.gas_used >= out.m.transaction.gas_limit
    THEN Fail([out.m EXCEPT !.success = FALSE], OutOfGas)
    ELSE out

\* the check at the end of every round of the loop
GasCheck(out) ==
    IF out.panic = NoPanic /\ out.m.ctl = InLoop
       /\ out.m.gas_used > out.m.transaction.gas_limit
    THEN Fail([out.m EXCEPT !.success = FALSE], OutOfGas)
    ELSE out

\* the most words a stack of this model holds
StackLimit == 1030

\* Vec::push on the stack: the host serves it until its memory runs out
HostStack(out) ==
    IF out.panic = NoPanic /\ Len(out.m.stack) > StackLimit THEN Fail(out.m, HostLimit)
    ELSE out

\* the round ends: the innermost machine is replaced by what the handler left,
\* a nested machine is entered, or the panic unwinds
Commit(out) ==
    LET o == GasCheck(HostStack(out))
    IN  /\ frames' = SubSeq(frames, 1, Len(frames) - 1) \o <<o.m>> \o o.spawn
        /\ panic' = o.panic

\* the opcodes of the match arms that stand before the static-mode guard arm
EarlierArms ==
    (PUSH1..PUSH32) \cup (DUP1..DUP16) \cup (SWAP1..SWAP16)
    \cup {PUSH0, POP, ADD, MUL, SUB, DIV, SDIV, MOD, EXP, LT, GT, EQ, ISZERO, AND, OR,
          XOR, NOT, SHL, SHR, BYTE, MSTORE, MSTORE8, MLOAD, MSIZE, SSTORE, SLOAD, STOP,
          JUMP, JUMPDEST, JUMPI, BLOCKHASH, COINBASE, TIMESTAMP, NUMBER, PREVRANDAO,
          GASLIMIT, CHAINID, SELFBALANCE, BASEFEE, SHA3, BALANCE, EXTCODESIZE,
          EXTCODECOPY, EXTCODEHASH, ADDRESS, ORIGIN, CALLER, CALLVALUE, LOG0, LOG1, LOG3,
          LOG4, RETURN, RETURNDATASIZE, RETURNDATACOPY, REVERT, INVALID, CALL}

\* the opcodes of the arms that stand after it
LaterArms == {STATICCALL, SELFDESTRUCT, GAS}

\* i if self.is_static && self.is_state_changing_opcode(i)
StaticGuard(m, op) == m.is_static /\ is_state_changing_opcode(op)

\* an arm before the guard arm
Step(op, out) ==
    /\ Running
    /\ Op = op
    /\ Commit(out)

\* an arm after the guard arm: taken only when the guard arm is not
LateStep(op, out) ==
    /\ Running
    /\ Op = op
    /\ ~StaticGuard(Top, op)
    /\ Commit(out)

\* STOP => { self.stop(); break; }
Stop ==
    /\ Running
    /\ Op = STOP
    /\ frames' = [frames EXCEPT ![Len(frames)] = [stop(Fetched).m EXCEPT !.ctl = Returned]]
    /\ panic' = NoPanic

\* the guard arm: success is cleared and the machine panics
StaticViolation ==
    /\ Running
    /\ Op \notin EarlierArms
    /\ StaticGuard(Top, Op)
    /\ Commit(Fail([Fetched EXCEPT !.success = FALSE], StaticPanic))

\* _ => unimplemented!()
Unimplemented ==
    /\ Running
    /\ Op \notin EarlierArms \cup LaterArms
    /\ ~StaticGuard(Top, Op)
    /\ Commit(Fail(Fetched, NotImplemented))

\* the loop condition fails: run() returns
LoopExit ==
    /\ panic = NoPanic
    /\ Top.ctl = InLoop
    /\ Top.pc >= Len(Top.code)
    /\ frames' = [frames EXCEPT ![Len(frames)].ctl = Returned]
    /\ panic' = NoPanic

\* the nested run() has returned: the caller's handler goes on, and then the
\* caller's round of the loop ends
Resume ==
    /\ panic = NoPanic
    /\ Len(frames) >= 2
    /\ Top.ctl = Returned
    /\ LET parent == frames[Len(frames) - 1]
           out == GasCheck(IF parent.pending.kind = "call" THEN call_resume(parent, Top)
                           ELSE static_call_resume(parent, Top))
       IN  /\ frames' = SubSeq(frames, 1, Len(frames) - 2) \o <<out.m>>
           /\ panic' = out.panic

\* run() of the outermost machine has returned, or a panic has ended the process
Done == panic # NoPanic \/ (Len(frames) = 1 /\ Top.ctl = Returned)

(***************************************************************************)
(* The inputs of EVM::init: the code, the transaction, the static flag     *)
(***************************************************************************)
\* the most one-byte pushes in front of the opcode of a probe program
MaxPushes == 7

\* the largest gas limit of the gas probes
MaxGasLimit == 13

\* a word with the single bit k set
Pow2(k) == ShlBits(U256One, k)

\* PUSH1 b, PUSH32 w, PUSH20 of the low twenty bytes of w
Push1(b) == <<PUSH1, b>>

Push32(w) == <<PUSH32>> \o w

Push20(w) == <<PUSH1 + 19>> \o SubSeq(w, 13, 32)

\* PUSH1 k, ..., PUSH1 1: k words, the word 1 on top
Pushes(k) == [i \in 1..(2 * k) |-> IF i % 2 = 1 THEN PUSH1 ELSE k - (i \div 2) + 1]

\* the words the two-operand programs are run on
Operands ==
    {FromNat(0), FromNat(1), FromNat(2), FromNat(31), FromNat(32), FromNat(255),
     Pow2(64), Pow2(253), Pow2(255), U256Max}

\* the exponents EXP is run on: raising to a greater power costs one
\* multiplication per bit of the exponent
Exponents ==
    {FromNat(0), FromNat(1), FromNat(2), FromNat(3), FromNat(255), FromNat(256), Pow2(64)}

BinaryOps == {ADD, MUL, SUB, DIV, SDIV, MOD, LT, GT, EQ, AND, OR, XOR, SHL, SHR, BYTE}

\* b is pushed first and a second, so that a is the top of the stack
BinaryPrograms ==
    {Push32(b) \o Push32(a) \o <<op>> : a \in Operands, b \in Operands, op \in BinaryOps}
    \cup {Push32(b) \o Push32(a) \o <<EXP>> : a \in Exponents, b \in Operands}

\* the opcodes of the probe programs: those run() has an arm for (of the PUSH,
\* DUP and SWAP families the two ends and the middle), and some it has none for
ProbeOps ==
    ((EarlierArms \cup LaterArms)
        \ (((PUSH1 + 2)..(PUSH32 - 1)) \cup ((DUP1 + 8)..(DUP16 - 1))
            \cup ((SWAP1 + 7)..(SWAP16 - 1))))
    \cup {PC, LOG2, CREATE, CREATE2, 12}

\* an opcode behind zero to MaxPushes words, alone or followed by a push
ProbePrograms ==
    {Pushes(k) \o <<op>> \o tail : k \in 0..MaxPushes, op \in ProbeOps,
                                   tail \in {<<>>, Push1(7)}}

\* the arguments of CALL in the order the handler pops them, then the tail
CallProgram(to, value, in_size, out_size, tail) ==
    Push1(out_size) \o Push1(0) \o Push1(in_size) \o Push1(0) \o Push32(value)
    \o Push20(to) \o Push1(0) \o <<CALL>> \o tail

StaticCallProgram(to, in_size, out_size, tail) ==
    Push1(out_size) \o Push1(0) \o Push1(in_size) \o Push1(0)
    \o Push20(to) \o Push1(0) \o <<STATICCALL>> \o tail

\* a call that costs the caller one charged push: every argument but the target
\* is a PUSH0
CheapCallProgram(to, op, out_size, tail) ==
    (IF out_size = 0 THEN <<PUSH0>> ELSE <<PUSH0, ISZERO>>) \o <<PUSH0, PUSH0, PUSH0>>
    \o (IF op = CALL THEN <<PUSH0>> ELSE <<>>) \o Push20(to) \o <<PUSH0, op>> \o tail

Targets == {AddrA, AddrB, FromNat(1)}

CallValues == {FromNat(0), FromNat(10), FromNat(100), FromNat(101), Pow2(32), Pow2(255)}

CallPrograms ==
    {CallProgram(to, v, 0, oz, tail) :
        to \in Targets, v \in CallValues, oz \in {0, 1}, tail \in {<<>>, Push1(7)}}
    \cup {StaticCallProgram(to, 0, oz, tail) :
        to \in Targets, oz \in {0, 1}, tail \in {<<>>, Push1(7)}}

\* calls whose input is one byte longer than a word
LongInputPrograms ==
    {CallProgram(AddrA, FromNat(10), WordBytes + 1, 0, <<>>),
     StaticCallProgram(AddrA, WordBytes + 1, 0, <<>>)}

\* programs that reach the arms the probes leave out
ScenarioPrograms ==
    {   \* a word is stored and logged with the topic count on the stack
        Push1(66) \o Push1(0) \o <<MSTORE>> \o Push1(9) \o Push1(8) \o Push1(n)
        \o Push1(32) \o Push1(0) \o <<op>> : n \in 0..2, op \in {LOG0, LOG1, LOG2, LOG3, LOG4}}
    \cup
    {   \* a terminating opcode in front of more code
        Push1(1) \o Push1(0) \o <<op>> \o Push1(7) \o Push1(9) \o Push1(0) \o <<SSTORE>> :
            op \in {STOP, RETURN, REVERT, INVALID}}
    \cup
    {   \* jumps to a JUMPDEST, to a push payload, past the end
        Push1(c) \o Push1(d) \o <<op, JUMPDEST>> \o Push1(JUMPDEST) \o <<JUMPDEST>> :
            c \in {0, 1}, d \in {0, 5, 7, 8, 9, 200}, op \in {JUMP, JUMPI}}
    \cup
    {   \* memory is written, hashed, returned and copied back
        Push1(66) \o Push1(0) \o <<MSTORE>> \o Push1(32) \o Push1(0) \o <<SHA3>>
        \o Push1(2) \o Push1(30) \o <<RETURN, RETURNDATASIZE>>
        \o Push1(n) \o Push1(0) \o Push1(40) \o <<RETURNDATACOPY, MSIZE>> : n \in 0..3}
    \cup
    {   \* the code of an account is copied into memory
        Push1(n) \o Push1(0) \o Push1(3) \o Push20(to) \o <<EXTCODECOPY>> :
            n \in {0, 4, 10, 11}, to \in Targets}
    \cup
    {   \* account reads
        Push20(to) \o <<op>> : to \in Targets,
                               op \in {BALANCE, EXTCODESIZE, EXTCODEHASH, SELFDESTRUCT}}
    \cup
    {   \* a stored word is read back, the stack is shuffled
        Push1(5) \o Push1(9) \o <<SSTORE>> \o Push1(9) \o <<SLOAD>> \o Push1(8)
        \o <<SLOAD, DUP1 + 1, SWAP1, POP, GAS>>,
        <<PUSH0, ISZERO, NOT, PUSH0, MLOAD, POP, POP, POP>>,
        Push32(FromNat(current_block.number)) \o <<BLOCKHASH>>,
        Push32(Pow2(64)) \o <<MLOAD>>,
        Push1(96) \o <<32>> \o Push1(5) \o <<MSTORE8>>}

\* a word whose 32 bytes differ from one another
Ramp == [i \in 1..WordBytes |-> i]

\* a word is stored at an offset and loaded from it
RoundTrip(w, k) == Push32(w) \o Push1(k) \o <<MSTORE>> \o Push1(k) \o <<MLOAD>>

RoundTripWords == {FromNat(2), Ramp, Pow2(255), U256Max}

RoundTripOffsets == {0, 5, 32}

\* PUSH1 2, PUSH1 0x20, MSTORE, PUSH1 0x20, MLOAD
StoreLoadExample == Push1(2) \o Push1(32) \o <<MSTORE>> \o Push1(32) \o <<MLOAD>>

\* PUSH1 0x04, JUMP, STOP, JUMPDEST
JumpExample == Push1(4) \o <<JUMP, STOP, JUMPDEST>>

\* a JUMPDEST, a JUMPDEST byte as the payload of a PUSH1, a JUMPDEST, and a
\* JUMPDEST byte in the payload of a PUSH32 that runs past the end
PayloadExample == <<JUMPDEST, PUSH1, JUMPDEST, JUMPDEST, PUSH32, JUMPDEST>>

\* 5 and then 7 are stored at key 9, 1 at key 8; keys 9 and 3 are loaded
StorageExample ==
    Push1(5) \o Push1(9) \o <<SSTORE>> \o Push1(7) \o Push1(9) \o <<SSTORE>>
    \o Push1(1) \o Push1(8) \o <<SSTORE>> \o Push1(9) \o <<SLOAD>> \o Push1(3) \o <<SLOAD>>

\* 5 is stored at key 9, the account 0x1000..0c42 is called, key 9 is loaded
StorageAcrossCall(op) ==
    Push1(5) \o Push1(9) \o <<SSTORE>>
    \o CheapCallProgram(AddrB, op, 1, Push1(9) \o <<SLOAD>>)

StoragePrograms == {StorageExample, StorageAcrossCall(CALL), StorageAcrossCall(STATICCALL)}

MemoryPrograms ==
    {RoundTrip(w, k) : w \in RoundTripWords, k \in RoundTripOffsets}
    \cup {StoreLoadExample,
          \* a second store overlaps the first
          Push32(Ramp) \o Push1(0) \o <<MSTORE>> \o Push32(U256Max) \o Push1(16)
          \o <<MSTORE>> \o Push1(0) \o <<MLOAD>> \o Push1(16) \o <<MLOAD>>,
          \* data is returned after the success flag was cleared
          <<INVALID>> \o Push1(66) \o Push1(0) \o <<MSTORE>> \o Push1(2) \o Push1(30)
          \o <<RETURN>>,
          Push1(66) \o Push1(0) \o <<MSTORE>> \o Push1(4) \o Push1(30) \o <<REVERT>>,
          \* return data is asked for at an offset of 2^32
          Push1(1) \o Push32(Pow2(32)) \o Push1(0) \o <<RETURNDATACOPY>>,
          \* offsets of 2^32 and more
          Push32(Pow2(32)) \o <<MLOAD>>,
          Push1(1) \o Push32(Pow2(32)) \o <<MSTORE>>}

\* fifteen words more on the stack every time round, at no gas
GrowingLoop == <<JUMPDEST>> \o [i \in 1..16 |-> PUSH0] \o <<JUMP>>

\* PUSH1 2, JUMPDEST, DUP1, JUMP: round and round on three gas
EndlessLoop == Push1(2) \o <<JUMPDEST, DUP1, JUMP>>

JumpPrograms ==
    {JumpExample, PayloadExample, GrowingLoop, EndlessLoop,
     Push32(Pow2(64)) \o <<JUMP>>,
     Push1(1) \o Push32(Pow2(64)) \o <<JUMPI>>,
     Push1(0) \o Push32(Pow2(64)) \o <<JUMPI>>,
     \* a condition of 2^64 and a JUMPDEST as target
     Push32(Pow2(64)) \o Push1(36) \o <<JUMPI, JUMPDEST>>,
     \* a jump back to the first byte, taken once
     <<JUMPDEST, PUSH0, MLOAD>> \o Push1(12) \o <<JUMPI>> \o Push1(1) \o <<PUSH0, MSTORE, PUSH0, JUMP, JUMPDEST>>}

\* the transaction of the outermost machine
Txn(gas_limit, caller_addr, this, value) ==
    [DefaultTransaction EXCEPT !.gas_limit = gas_limit, !.caller = caller_addr,
                               !.this_addr = this, !.value = value]

Input(code, txn, is_static) == [code |-> code, transaction |-> txn, is_static |-> is_static]

\* the opcodes the static flag is probed with
StaticProbes ==
    {SSTORE, LOG0, LOG1, LOG2, LOG3, LOG4, CREATE, CREATE2, SELFDESTRUCT, CALL, STATICCALL,
     SLOAD, ADD, 12}

Inputs ==
    {Input(c, DefaultTransaction, FALSE) : c \in BinaryPrograms \cup ProbePrograms}
    \cup {Input(c, Txn(21000, AddrA, AddrB, 10), s) :
            c \in ScenarioPrograms, s \in BOOLEAN}
    \cup {Input(Pushes(k) \o <<op>> \o tail, DefaultTransaction, TRUE) :
            k \in 0..MaxPushes, op \in StaticProbes, tail \in {<<>>, Push1(7)}}
    \cup {Input(c, Txn(21000, t[1], t[2], 10), FALSE) :
            c \in CallPrograms, t \in {<<AddrA, AddrB>>, <<AddrB, AddrA>>, <<AddrA, AddrA>>}}
    \cup {Input(c, Txn(21000, AddrA, AddrB, 10), TRUE) : c \in CallPrograms}
    \cup {Input(c, Txn(21000, AddrA, AddrB, 10), FALSE) : c \in LongInputPrograms}
    \cup {Input(c, Txn(21000, AddrA, AddrB, 10), FALSE) :
            c \in MemoryPrograms \cup JumpPrograms \cup StoragePrograms}
    \cup {Input(Push20(to) \o <<SELFDESTRUCT>>, Txn(21000, AddrB, AddrA, 10), FALSE) :
            to \in Targets}
    \cup {Input(Pushes(k), Txn(g, AddrA, AddrB, 10), FALSE) :
            k \in 0..4, g \in 0..MaxGasLimit}
    \cup {Input(CheapCallProgram(to, op, oz, tail), Txn(g, AddrA, AddrB, 10), FALSE) :
            to \in {AddrA, AddrB}, op \in {CALL, STATICCALL}, oz \in {0, 1},
            tail \in {<<>>, Push1(7)}, g \in 0..MaxGasLimit}

(***************************************************************************)
(* The state machine                                                       *)
(***************************************************************************)
\* EVM::init, then find_valid_jump_destinations, as main() does before run()
Init ==
    /\ \E i \in Inputs :
          frames = <<find_valid_jump_destinations(init(i.code, i.transaction, i.is_static))>>
    /\ panic = NoPanic

Next ==
    \/ \E i \in PUSH1..PUSH32 : Step(i, push(Fetched, i - PUSH1 + 1))
    \/ Step(PUSH0, push0(Fetched))
    \/ Step(POP, pop_op(Fetched))
    \/ Step(ADD, add(Fetched))
    \/ Step(MUL, mul(Fetched))
    \/ Step(SUB, sub(Fetched))
    \/ Step(DIV, div(Fetched))
    \/ Step(SDIV, sdiv(Fetched))
    \/ Step(MOD, mod(Fetched))
    \/ Step(EXP, exp(Fetched))
    \/ Step(LT, lt(Fetched))
    \/ Step(GT, gt(Fetched))
    \/ Step(EQ, eq(Fetched))
    \/ Step(ISZERO, iszero(Fetched))
    \/ Step(AND, and_op(Fetched))
    \/ Step(OR, or(Fetched))
    \/ Step(XOR, xor(Fetched))
    \/ Step(NOT, not(Fetched))
    \/ Step(SHL, shl(Fetched))
    \/ Step(SHR, shr(Fetched))
    \/ Step(BYTE, byte(Fetched))
    \/ Step(MSTORE, mstore(Fetched))
    \/ Step(MSTORE8, mstore8(Fetched))
    \/ Step(MLOAD, mload(Fetched))
    \/ Step(MSIZE, msize(Fetched))
    \/ Step(SSTORE, sstore(Fetched))
    \/ Step(SLOAD, sload(Fetched))
    \/ Stop
    \/ Step(JUMP, jump(Fetched))
    \/ Step(JUMPDEST, jump_dest(Fetched))
    \/ Step(JUMPI, jumpi(Fetched))
    \/ Step(BLOCKHASH, blockhash(Fetched))
    \/ Step(COINBASE, coinbase(Fetched))
    \/ Step(TIMESTAMP, timestamp(Fetched))
    \/ Step(NUMBER, number(Fetched))
    \/ Step(PREVRANDAO, prevrandao(Fetched))
    \/ Step(GASLIMIT, gaslimit(Fetched))
    \/ Step(CHAINID, chainid(Fetched))
    \/ Step(SELFBALANCE, selfbalance(Fetched))
    \/ Step(BASEFEE, basefee(Fetched))
    \/ \E i \in DUP1..DUP16, overflow_checks \in BOOLEAN :
          Step(i, dup(Fetched, i - DUP1 + 1, overflow_checks))
    \/ \E i \in SWAP1..SWAP16 : Step(i, swap(Fetched, i - SWAP1 + 1))
    \/ Step(SHA3, sha3(Fetched))
    \/ Step(BALANCE, balance(Fetched))
    \/ Step(EXTCODESIZE, extcodesize(Fetched))
    \/ Step(EXTCODECOPY, extcodecopy(Fetched))
    \/ Step(EXTCODEHASH, extcodehash(Fetched))
    \/ Step(ADDRESS, address(Fetched))
    \/ Step(ORIGIN, origin(Fetched))
    \/ Step(CALLER, caller(Fetched))
    \/ Step(CALLVALUE, callvalue(Fetched))
    \/ Step(LOG0, log(Fetched, 0))
    \/ Step(LOG1, log(Fetched, 1))
    \/ Step(LOG3, log(Fetched, 2))
    \/ Step(LOG4, log(Fetched, 3))
    \/ Step(RETURN, return_op(Fetched))
    \/ Step(RETURNDATASIZE, return_data_size(Fetched))
    \/ Step(RETURNDATACOPY, return_data_copy(Fetched))
    \/ Step(REVERT, revert(Fetched))
    \/ Step(INVALID, invalid(Fetched))
    \/ Step(CALL, call(Fetched))
    \/ StaticViolation
    \/ LateStep(STATICCALL, static_call(Fetched))
    \/ LateStep(SELFDESTRUCT, selfdestruct(Fetched))
    \/ LateStep(GAS, gas(Fetched))
    \/ Unimplemented
    \/ LoopExit
    \/ Resume

Spec == Init /\ [][Next]_vars

\* programs that go round, and two that come to their end
LoopPrograms ==
    {EndlessLoop, GrowingLoop, Push1(3) \o <<JUMP, JUMPDEST>>, Push1(3) \o <<JUMP, JUMPDEST, STOP>>}

\* main() on a loop program, with a gas limit below and above the cost of one PUSH1
LoopInit ==
    /\ \E c \in LoopPrograms, g \in {2, 21000} :
          frames = <<find_valid_jump_destinations(init(c, Txn(g, AddrA, AddrB, 10), FALSE))>>
    /\ panic = NoPanic

\* the arms of run() that the loop programs reach
LoopNext ==
    \/ \E i \in PUSH1..PUSH32 : Step(i, push(Fetched, i - PUSH1 + 1))
    \/ Step(PUSH0, push0(Fetched))
    \/ Stop
    \/ Step(JUMP, jump(Fetched))
    \/ Step(JUMPDEST, jump_dest(Fetched))
    \/ \E i \in DUP1..DUP16, overflow_checks \in BOOLEAN :
          Step(i, dup(Fetched, i - DUP1 + 1, overflow_checks))
    \/ LoopExit

\* run() is one synchronous loop: while a round is possible the next round is taken
LiveSpec == LoopInit /\ [][LoopNext]_vars /\ WF_vars(LoopNext)

(***************************************************************************)
(* Properties                                                              *)
(***************************************************************************)
\* the innermost machine is about to execute op
Fetching(op) == Running /\ Op = op

\* the machine at the place of the innermost one, after the step
After == frames'[Len(frames)]

\* C1: a machine in static mode that fetches SSTORE, LOG0..LOG4, SELFDESTRUCT,
\* CREATE or CREATE2 fails with the static-state violation, and its storage, its
\* log and its ledger are what they were before the fetch
C1_StaticGuardBeforeHandler ==
    [][(Running /\ Top.is_static
        /\ Op \in {SSTORE, LOG0, LOG1, LOG2, LOG3, LOG4, SELFDESTRUCT, CREATE, CREATE2})
       => (/\ panic' = StaticPanic
           /\ After.storage = Top.storage
           /\ After.log = Top.log
           /\ After.account_db = Top.account_db)]_vars

\* C2: a fatal error of a nested machine is no fatal error of its parent: no
\* step of a nested machine ends the run, the nested machine returns with its
\* success flag cleared, and the parent pushes 0 when it resumes
C2_NestedFatalStaysNested ==
    [][(panic = NoPanic /\ Len(frames) >= 2)
       => (/\ panic' = NoPanic
           /\ (Top.ctl = Returned /\ ~Top.success)
                => frames'[Len(frames) - 1].stack
                       = Append(frames[Len(frames) - 1].stack, U256Zero))]_vars

\* the words CALL takes: the target is second from the top, the value third
CallTarget(m) == m.stack[Len(m.stack) - 1]

CallValue(m) == m.stack[Len(m.stack) - 2]

\* the balance of the account whose code the machine runs
OwnBalance(m) == m.account_db[m.transaction.this_addr].balance

\* a CALL by a machine outside static mode whose own account and whose target
\* are in the ledger
PlainCall ==
    /\ Fetching(CALL)
    /\ Len(Top.stack) >= 7
    /\ ~Top.is_static
    /\ Top.transaction.this_addr \in DOMAIN Top.account_db
    /\ CallTarget(Top) \in DOMAIN Top.account_db

\* C3: a CALL with a value greater than the balance of the calling account
\* leaves the ledger as it was, starts no nested machine, pushes 0, and the
\* calling machine goes on
C3_InsufficientBalanceIsSoft ==
    [][(PlainCall /\ LtBytes(FromNat(OwnBalance(Top)), CallValue(Top)))
       => (/\ panic' = NoPanic
           /\ Len(frames') = Len(frames)
           /\ After.ctl = InLoop
           /\ After.account_db = Top.account_db
           /\ After.stack = Append(SubSeq(Top.stack, 1, Len(Top.stack) - 7), U256Zero))]_vars

\* the ledger after value has moved from the account src to the account dst
Transfer(db, src, dst, value) ==
    [k \in DOMAIN db |->
        [db[k] EXCEPT !.balance = @ - (IF k = src THEN value ELSE 0)
                                    + (IF k = dst THEN value ELSE 0)]]

\* C4: a CALL with a value the calling account (the this-address of the
\* machine) holds moves exactly that value from the calling account to the
\* target in the one step
C4_TransferDebitsOwnAccount ==
    [][(PlainCall /\ LeBytes(CallValue(Top), FromNat(OwnBalance(Top))))
       => After.account_db = Transfer(Top.account_db, Top.transaction.this_addr,
                                      CallTarget(Top), SmallVal(CallValue(Top)))]_vars

\* C5: a nested machine reads and writes the ledger of its parent: the two
\* ledgers are the same at every moment
C5_NestedSharesLedger ==
    \A i \in 2..Len(frames) : frames[i].account_db = frames[i - 1].account_db

\* C6: the run fails with out of gas at the first end of a round at which the
\* gas used exceeds the gas limit: a machine is out of gas exactly when its gas
\* used exceeds its limit, and no machine that goes on, fetches or waits for a
\* nested run has exceeded it
C6_OutOfGasAtFirstCrossing ==
    /\ panic = OutOfGas <=> Top.gas_used > Top.transaction.gas_limit
    /\ \A i \in 1..(Len(frames) - 1) :
          frames[i].gas_used <= frames[i].transaction.gas_limit

\* a run out of gas at its third charged instruction or later
C6_Witness ==
    /\ panic = OutOfGas
    /\ Top.gas_used >= 3 * GasCostPush
    /\ Top.gas_used - GasCostPush <= Top.transaction.gas_limit

\* C7: once STOP, RETURN, REVERT or INVALID has executed the loop is over: the
\* machine fetches no later instruction
C7_TerminalOpcodesStopTheLoop ==
    [][(Running /\ Op \in {STOP, RETURN, REVERT, INVALID} /\ panic' = NoPanic)
       => (After.ctl = Returned \/ After.pc >= Len(After.code))]_vars

\* the number of words an opcode pops
Pops(op) ==
    CASE op \in {POP, ISZERO, NOT, MLOAD, SLOAD, JUMP, SELFDESTRUCT} -> 1
      [] op \in BinaryOps \cup {EXP, MSTORE, MSTORE8, SSTORE, JUMPI, SHA3, RETURN, REVERT} -> 2
      [] op = RETURNDATACOPY -> 3
      [] op = EXTCODECOPY -> 4
      [] op \in LOG0..LOG4 -> 2 + (op - LOG0)
      [] op = STATICCALL -> 6
      [] op = CALL -> 7
      [] op \in DUP1..DUP16 -> op - DUP1 + 1
      [] op \in SWAP1..SWAP16 -> op - SWAP1 + 2
      [] OTHER -> 0

\* C8: an opcode fetched on a stack shorter than the number of words it pops
\* fails with stack underflow, and the machine is as the fetch left it: nothing
\* is popped, nothing is written, no default stands in for a missing operand
C8_UnderflowIsDetected ==
    [][(Running /\ ~Top.is_static /\ Len(Top.stack) < Pops(Op))
       => (panic' = StackUnderflow /\ frames' = [frames EXCEPT ![Len(frames)] = Fetched])]_vars

\* the two words a binary opcode takes: a on top, b below it, rest under them
OperandA == Top.stack[Len(Top.stack)]

OperandB == Top.stack[Len(Top.stack) - 1]

Rest == SubSeq(Top.stack, 1, Len(Top.stack) - 2)

\* the step pushed r in place of the two operands, and the run goes on
Gives(r) == panic' = NoPanic /\ After.stack = Append(Rest, r)

RECURSIVE MathPow(_, _)
\* b to the power n by the recurrence b^n = (b^(n div 2))^2 * b^(n mod 2):
\* the value, and whether it is within 0..2^256-1
MathPow(b, n) ==
    IF n = 0 THEN [ok |-> TRUE, value |-> U256One]
    ELSE LET h  == MathPow(b, n \div 2)
             sq == OverflowingMul(h.value, h.value)
             r  == IF n % 2 = 1 THEN OverflowingMul(sq.value, b)
                   ELSE [value |-> sq.value, overflow |-> FALSE]
         IN  IF ~h.ok \/ sq.overflow \/ r.overflow THEN [ok |-> FALSE, value |-> U256Zero]
             ELSE [ok |-> TRUE, value |-> r.value]

\* b to the power a for any word a: beyond 2^31 only 0 and 1 stay in range
MathExp(b, a) ==
    IF IsSmall(a) THEN MathPow(b, SmallVal(a))
    ELSE IF LeBytes(b, U256One) THEN [ok |-> TRUE, value |-> b]
    ELSE [ok |-> FALSE, value |-> U256Zero]

\* the mathematical result of op on b and a lies in 0..2^256-1 (for DIV and
\* MOD: it is defined)
InRange(op, b, a) ==
    CASE op = ADD -> LeBytes(b, U256Not(a))
      [] op = SUB -> LeBytes(a, b)
      [] op = MUL -> IsZero(a) \/ LeBytes(b, DivMod(U256Max, a).quot)
      [] op = EXP -> MathExp(b, a).ok
      [] op \in {DIV, MOD} -> ~IsZero(a)

\* r is the mathematical result of op on b and a, the result being in range
Exact(op, b, a, r) ==
    CASE op = ADD -> OverflowingSub(r, a) = [value |-> b, overflow |-> FALSE]
      [] op = SUB -> OverflowingAdd(r, a) = [value |-> b, overflow |-> FALSE]
      [] op = MUL -> IF IsZero(a) THEN IsZero(r)
                     ELSE LET d == DivMod(r, a) IN d.quot = b /\ IsZero(d.rem)
      [] op = EXP -> r = MathExp(b, a).value
      [] op = DIV -> LET p == OverflowingMul(r, a)
                     IN  /\ ~p.overflow
                         /\ LeBytes(p.value, b)
                         /\ LtBytes(OverflowingSub(b, p.value).value, a)
      [] op = MOD -> LET d == OverflowingSub(b, r).value
                         q == DivMod(d, a).quot
                     IN  /\ LtBytes(r, a)
                         /\ LeBytes(r, b)
                         /\ OverflowingMul(q, a) = [value |-> d, overflow |-> FALSE]

\* the panic of the arithmetic handler of op
ArithmeticPanic(op) ==
    CASE op = ADD -> "add overflow"
      [] op = MUL -> "mul overflow"
      [] op = SUB -> "sub overflow"
      [] op = EXP -> "exp overflow"
      [] op = DIV -> "div overflow"
      [] op = MOD -> "mod overflow"

\* C9: with a on top and b below, ADD, MUL, SUB and EXP fail exactly when the
\* mathematical result is outside 0..2^256-1 (SUB: when a > b), DIV and MOD
\* fail exactly when a = 0, and otherwise the exact result is pushed
C9_CheckedArithmetic ==
    [][(Running /\ Op \in {ADD, MUL, SUB, EXP, DIV, MOD} /\ Len(Top.stack) >= 2)
       => IF InRange(Op, OperandB, OperandA)
          THEN /\ panic' = NoPanic
               /\ Len(After.stack) = Len(Top.stack) - 1
               /\ Gives(After.stack[Len(After.stack)])
               /\ Exact(Op, OperandB, OperandA, After.stack[Len(After.stack)])
          ELSE panic' = ArithmeticPanic(Op) /\ After.stack = Rest]_vars

\* a subtraction has failed for a > b with both operands taken off the stack
C9_Witness ==
    /\ panic = "sub overflow"
    /\ Top.code[Top.pc] = SUB
    /\ Top.stack = <<>>

\* byte number a of b, byte 0 the least significant; 0 from byte 32 on
ByteOf(b, a) ==
    IF IsSmall(a) /\ SmallVal(a) < WordBytes THEN FromNat(b[WordBytes - SmallVal(a)])
    ELSE U256Zero

\* r is what op makes of b and a
Result(op, b, a, r) ==
    CASE op \in {SUB, DIV, MOD, EXP} -> Exact(op, b, a, r)
      [] op = SHL -> r = (IF IsSmall(a) /\ SmallVal(a) < 8 * WordBytes
                          THEN OverflowingMul(b, Pow2(SmallVal(a))).value ELSE U256Zero)
      [] op = SHR -> r = (IF IsSmall(a) /\ SmallVal(a) < 8 * WordBytes
                          THEN DivMod(b, Pow2(SmallVal(a))).quot ELSE U256Zero)
      [] op = BYTE -> r = ByteOf(b, a)
      [] op = LT -> r = (IF LtBytes(b, a) THEN U256One ELSE U256Zero)
      [] op = GT -> r = (IF LtBytes(a, b) THEN U256One ELSE U256Zero)

\* C10: with a on top and b below, SUB, DIV, MOD, EXP, SHL, SHR, BYTE, LT and GT
\* put one word in place of the two, the word the opcode stands for, and SHL,
\* SHR, BYTE, LT and GT do so whatever the operands
C10_BinaryResults ==
    [][(Running /\ Op \in {SUB, DIV, MOD, EXP, SHL, SHR, BYTE, LT, GT}
        /\ Len(Top.stack) >= 2)
       => /\ Op \in {SHL, SHR, BYTE, LT, GT} => panic' = NoPanic
          /\ panic' = NoPanic
                => /\ Len(After.stack) = Len(Top.stack) - 1
                   /\ Gives(After.stack[Len(After.stack)])
                   /\ Result(Op, OperandB, OperandA, After.stack[Len(After.stack)])]_vars

\* the i-th word from the top of the stack of the innermost machine
Arg(i) == Top.stack[Len(Top.stack) - i + 1]

\* the opcodes that read or write memory at operands of the stack, and for each
\* the stack depth it needs, the offset of its access and the size
MemoryOps == {MSTORE, MSTORE8, MLOAD, SHA3, RETURN, REVERT, LOG0, LOG1, LOG3, LOG4,
              RETURNDATACOPY, EXTCODECOPY}

AccessDepth(op) ==
    CASE op = MLOAD -> 1
      [] op \in {MSTORE, MSTORE8, SHA3, RETURN, REVERT} -> 2
      [] op \in {LOG0, LOG1, LOG3, LOG4, RETURNDATACOPY} -> 3
      [] op = EXTCODECOPY -> 4

AccessOffset(op) == IF op = EXTCODECOPY THEN Arg(2) ELSE Arg(1)

AccessSize(op) ==
    CASE op \in {MSTORE, MSTORE8, MLOAD} -> FromNat(WordBytes)
      [] op \in {SHA3, RETURN, REVERT, LOG0, LOG1, LOG3, LOG4} -> Arg(2)
      [] op = RETURNDATACOPY -> Arg(3)
      [] op = EXTCODECOPY -> Arg(4)

Max(x, y) == IF x >= y THEN x ELSE y

\* C11: the memory of a machine never shrinks, and a step leaves it as long as
\* the greatest offset+size of the accesses made so far: an access at
\* offset..offset+size leaves it Max(length before, offset+size) long, and a
\* step that accesses no memory leaves the length as it was
C11_MemoryLengthIsMaxAccess ==
    [][(Running /\ Len(frames') >= Len(frames))
       => /\ Len(After.memmory) >= Len(Top.memmory)
          /\ (Op \in MemoryOps /\ Len(Top.stack) >= AccessDepth(Op)
              /\ Addressable(AccessOffset(Op), AccessSize(Op)))
                => Len(After.memmory)
                      = Max(Len(Top.memmory),
                            SmallVal(AccessOffset(Op)) + SmallVal(AccessSize(Op)))
          /\ Op \notin MemoryOps \cup {CALL, STATICCALL}
                => Len(After.memmory) = Len(Top.memmory)]_vars

\* byte i (0 the most significant) of the big-endian encoding of w, by arithmetic
BigEndianByte(w, i) == SmallVal(U256And(ShrBits(w, 8 * (WordBytes - 1 - i)), FromNat(255)))

\* bytes off..off+32 of mem are the big-endian encoding of w
HoldsWord(mem, off, w) ==
    /\ Len(mem) >= off + WordBytes
    /\ \A i \in 0..(WordBytes - 1) : mem[off + 1 + i] = BigEndianByte(w, i)

\* C12: MSTORE of w at k makes bytes k..k+32 of memory the big-endian encoding
\* of w and leaves the other bytes alone; MLOAD at k, for every offset k that
\* MSTORE takes, pushes the word that bytes k..k+32 encode; so the program
\* that stores w at k and loads from k ends with the stack <<w>>, and PUSH1 2,
\* PUSH1 0x20, MSTORE, PUSH1 0x20, MLOAD ends with the stack <<2>> and a memory of
\* 0x40 bytes whose first 32 are zero
C12_StoreThenLoad ==
    /\ [][(Fetching(MSTORE) /\ Len(Top.stack) >= 2 /\ ~AsU64Fails(Arg(1)))
          => \/ panic' = HostLimit
             \/ /\ panic' = NoPanic
                /\ HoldsWord(After.memmory, SmallVal(Arg(1)), Arg(2))
                /\ \A i \in 1..Len(Top.memmory) :
                      (i <= SmallVal(Arg(1)) \/ i > SmallVal(Arg(1)) + WordBytes)
                         => After.memmory[i] = Top.memmory[i]]_vars
    /\ [][(Fetching(MLOAD) /\ Len(Top.stack) >= 1 /\ ~AsU64Fails(Arg(1)))
          => \/ panic' = HostLimit
             \/ /\ panic' = NoPanic
                /\ Len(After.stack) = Len(Top.stack)
                /\ HoldsWord(After.memmory, SmallVal(Arg(1)), After.stack[Len(After.stack)])
                /\ SubSeq(After.memmory, 1, Len(Top.memmory)) = Top.memmory]_vars
    /\ [](\A w \in RoundTripWords, k \in RoundTripOffsets :
            frames[1].code = RoundTrip(w, k)
               => /\ panic = NoPanic
                  /\ frames[1].pc = Len(frames[1].code)
                        => /\ frames[1].stack = <<w>>
                           /\ HoldsWord(frames[1].memmory, k, w))
    /\ [](frames[1].code = StoreLoadExample
            => /\ panic = NoPanic
               /\ frames[1].pc = Len(frames[1].code)
                     => /\ frames[1].stack = <<FromNat(2)>>
                        /\ frames[1].memmory = ZeroBytes(WordBytes) \o FromNat(2))

\* the number of immediate bytes after the opcode at offset q
Immediates(code, q) ==
    IF code[q + 1] >= PUSH1 /\ code[q + 1] <= PUSH32 THEN code[q + 1] - PUSH1 + 1 ELSE 0

\* the offset of the opcode after the one at q
NextOpcode(code, q) == q + 1 + Immediates(code, q)

Greatest(S) == CHOOSE x \in S : \A y \in S : y <= x

RECURSIVE Walk(_, _, _)
\* the opcode offsets met in at most n hops from opcode offset p
Walk(code, p, n) ==
    IF p >= Len(code) THEN {}
    ELSE IF n = 1 THEN {p}
    ELSE LET first == Walk(code, p, n \div 2)
         IN  first \cup Walk(code, NextOpcode(code, Greatest(first)), n \div 2)

\* S is the set of offsets a forward scan from 0 reaches as opcode positions
IsOpcodePositions(code, S) ==
    /\ S \subseteq 0..(Len(code) - 1)
    /\ Len(code) > 0 => 0 \in S
    /\ \A q \in S : NextOpcode(code, q) < Len(code) => NextOpcode(code, q) \in S
    /\ \A p \in S : p = 0 \/ \E q \in S : q < p /\ NextOpcode(code, q) = p

\* C13: the valid-jump set of the prepass is the set of the offsets that hold
\* JUMPDEST and that the forward scan reaches as opcode positions; no offset
\* inside the payload of a reached PUSH is in it; the scan ends, also when
\* the payload of the last PUSH runs past the end of the code
C13_PrepassIsExact ==
    LET code == frames[1].code
        S == Walk(code, 0, MaxCodeLen)
    IN  /\ IsOpcodePositions(code, S)
        /\ frames[1].vaild_jump_dest = {p \in S : code[p + 1] = JUMPDEST}
        /\ \A q \in S : \A p \in (q + 1)..(NextOpcode(code, q) - 1) :
              p \notin frames[1].vaild_jump_dest
        /\ ScanLoop(code, [pc |-> 0, dests |-> {}], MaxCodeLen).pc >= Len(code)

C13_Witness ==
    /\ frames[1].code = PayloadExample
    /\ frames[1].vaild_jump_dest = {0, 3}
    /\ frames[1].pc = 4

\* the target on top of the stack is an offset of the code and of the valid-jump set
ValidTarget(m, t) ==
    IsSmall(t) /\ SmallVal(t) < Len(m.code) /\ SmallVal(t) \in m.vaild_jump_dest

\* C14: JUMP pops one target; a target outside the code or outside the
\* valid-jump set fails with invalid jump destination and leaves the program
\* counter past the JUMP, any other target becomes the program counter; and
\* PUSH1 4, JUMP, STOP, JUMPDEST goes from the JUMP to offset 4, never to the
\* STOP, and ends without a fault
C14_JumpValidity ==
    /\ [][(Fetching(JUMP) /\ Len(Top.stack) >= 1)
          => IF ValidTarget(Top, Arg(1))
             THEN /\ panic' = NoPanic
                  /\ After.pc = SmallVal(Arg(1))
                  /\ After.pc \in After.vaild_jump_dest
                  /\ After.stack = SubSeq(Top.stack, 1, Len(Top.stack) - 1)
             ELSE /\ panic' = InvalidJump
                  /\ After.pc = Top.pc + 1]_vars
    /\ [](frames[1].code = JumpExample
            => /\ panic = NoPanic
               /\ frames[1].pc \in {0, 2, 4, 5}
               /\ frames[1].ctl = Returned => frames[1].pc = 5)

\* the panics that stand for the fatal error kinds; HostLimit is the limit of
\* the modelled memory and is none of them
FatalError == panic \notin {NoPanic, HostLimit}

\* C15: when a fatal error is reported, the machine in which it occurred has
\* executed nothing after it and its success flag is false
C15_FatalErrorClearsSuccess ==
    /\ [](FatalError => ~Top.success)
    /\ [][FatalError => UNCHANGED vars]_vars

\* the opcodes run() has an arm for
Dispatched == EarlierArms \cup LaterArms

\* C16: an opcode byte without a handler, and CREATE and CREATE2 in either
\* mode, fails as an unknown opcode; PC and LOG2, which the specification
\* names, are dispatched to a handler and do not fail as unknown
C16_UnknownOpcodes ==
    [][Running
       => /\ Op \notin Dispatched \cup {PC, LOG2} => panic' = NotImplemented
          /\ Op \in {CREATE, CREATE2} => panic' = NotImplemented
          /\ Op \in {PC, LOG2} => panic' # NotImplemented]_vars

\* a step of CALL or STATICCALL that creates a nested machine
Spawns(op) == Fetching(op) /\ panic' = NoPanic /\ Len(frames') = Len(frames) + 1

\* the nested machine such a step creates
Nested == frames'[Len(frames')]

\* C17: the context of the nested machine of a CALL and of a STATICCALL has the
\* parent's this-address as caller, the parent's origin, gas price and gas
\* limit, and the target of the call as this-address
C17_NestedContext ==
    [][\A op \in {CALL, STATICCALL} :
         Spawns(op)
            => /\ Nested.transaction.caller = Top.transaction.this_addr
               /\ Nested.transaction.origin = Top.transaction.origin
               /\ Nested.transaction.gas_price = Top.transaction.gas_price
               /\ Nested.transaction.gas_limit = Top.transaction.gas_limit
               /\ Nested.transaction.this_addr = CallTarget(Top)]_vars

\* the nested run() of the innermost machine has returned to its parent
Returning == panic = NoPanic /\ Len(frames) >= 2 /\ Top.ctl = Returned

\* the machine that made the call, before and after the nested run() returns
Parent == frames[Len(frames) - 1]

ParentAfter == frames'[Len(frames) - 1]

Min(x, y) == IF x <= y THEN x ELSE y

\* C18: when the nested machine of a CALL or STATICCALL returns, whatever the
\* length of its return data, nothing faults, the parent's memory covers the
\* output region, the region begins with the return data (cut to the size of
\* the region), and the parent pushes 1 for a true nested success flag, 0 for
\* a false one
C18_ReturnDataCopied ==
    [][Returning
       => LET start == Parent.pending.mem_out_start
              size  == Parent.pending.mem_out_size
              n     == Min(size, Len(Top.return_data))
          IN  /\ panic' = NoPanic
              /\ Len(frames') = Len(frames) - 1
              /\ Len(ParentAfter.memmory) >= start + size
              /\ SubSeq(ParentAfter.memmory, start + 1, start + n)
                    = SubSeq(Top.return_data, 1, n)
              /\ ParentAfter.stack
                    = Append(Parent.stack, IF Top.success THEN U256One ELSE U256Zero)]_vars

\* C19: STATICCALL takes the six operands of CALL without the value, changes
\* no balance of the ledger of the machine that executes it, neither when it
\* invokes the target nor when the target returns, and creates the nested
\* machine in static mode, whatever the mode of the parent, with a context
\* value of 0
C19_StaticCallIsStatic ==
    /\ [][Fetching(STATICCALL)
          => /\ After.account_db = Top.account_db
             /\ Spawns(STATICCALL)
                   => /\ Nested.is_static
                      /\ Nested.transaction.value = 0
                      /\ After.stack = SubSeq(Top.stack, 1, Len(Top.stack) - 6)]_vars
    /\ [][(Returning /\ Parent.pending.kind = "static_call")
          => ParentAfter.account_db = Parent.account_db]_vars

C19_Witness ==
    /\ Len(frames) = 2
    /\ frames[1].pending.kind = "static_call"
    /\ ~frames[1].is_static
    /\ frames[2].is_static
    /\ frames[2].transaction.value = 0
    /\ frames[2].pc > 0

\* C20: a CALL by a machine in static mode with a value operand other than 0
\* fails with the static-state violation, with no balance changed and no
\* nested machine created; with the value 0 it does not fail with it
C20_StaticCallValue ==
    [][(Fetching(CALL) /\ Top.is_static /\ Len(Top.stack) >= 7 /\ ~AsU64Fails(Arg(1)))
       => IF IsZero(CallValue(Top))
          THEN panic' # StaticPanic
          ELSE /\ panic' = StaticPanic
               /\ After.account_db = Top.account_db
               /\ Len(frames') = Len(frames)]_vars

RECURSIVE SumOver(_, _)
\* the sum of the balances of the accounts of db whose addresses are in S
SumOver(db, S) ==
    IF S = {} THEN 0
    ELSE LET a == CHOOSE x \in S : TRUE
         IN  db[a].balance + SumOver(db, S \ {a})

TotalBalance(db) == SumOver(db, DOMAIN db)

\* C21: SELFDESTRUCT with the popped address T, executed by the account E (the
\* this-address of the machine) holding B, T being another address: afterwards
\* E holds 0 and T holds what it held (0 if it was absent) plus B, E is in the
\* ledger with its code, and the sum of all balances is what it was
C21_SelfdestructMovesBalance ==
    [][(Fetching(SELFDESTRUCT) /\ ~Top.is_static /\ Len(Top.stack) >= 1
        /\ Top.transaction.this_addr \in DOMAIN Top.account_db
        /\ Arg(1) # Top.transaction.this_addr)
       => LET E == Top.transaction.this_addr
              T == Arg(1)
              B == Top.account_db[E].balance
              held == IF T \in DOMAIN Top.account_db THEN Top.account_db[T].balance ELSE 0
          IN  /\ panic' = NoPanic
              /\ DOMAIN After.account_db = DOMAIN Top.account_db \cup {T}
              /\ After.account_db[E].balance = 0
              /\ After.account_db[T].balance = held + B
              /\ After.account_db[E].code = Top.account_db[E].code
              /\ TotalBalance(After.account_db) = TotalBalance(Top.account_db)]_vars

\* mem extended with zero bytes to n bytes when it is shorter
ZeroExtended(mem, n) == mem \o [i \in 1..(n - Len(mem)) |-> 0]

\* C22: RETURN and REVERT pop an offset and a size, extend the memory with zero
\* bytes to offset+size when it is shorter, and make the return data the
\* memory bytes offset..offset+size; REVERT clears the success flag, RETURN
\* leaves it as it was
C22_ReturnAndRevert ==
    [][\A op \in {RETURN, REVERT} :
         (Fetching(op) /\ Len(Top.stack) >= 2 /\ Addressable(Arg(1), Arg(2)))
            => LET off == SmallVal(Arg(1))
                   size == SmallVal(Arg(2))
               IN  /\ panic' = NoPanic
                   /\ After.stack = SubSeq(Top.stack, 1, Len(Top.stack) - 2)
                   /\ After.memmory = ZeroExtended(Top.memmory, off + size)
                   /\ After.return_data = SubSeq(After.memmory, off + 1, off + size)
                   /\ After.success = (IF op = REVERT THEN FALSE ELSE Top.success)]_vars

\* a RETURN of two bytes, one of them from a stored word, has just been
\* executed by a machine whose success flag was true
C22_Witness ==
    /\ frames[1].pc > 0
    /\ frames[1].code[frames[1].pc] = RETURN
    /\ frames[1].return_data = <<0, 66>>
    /\ frames[1].success

\* the range off..off+size of return data ends inside data
InsideData(data, off, size) ==
    IsSmall(off) /\ IsSmall(size) /\ SmallVal(off) <= Len(data)
    /\ SmallVal(size) <= Len(data) - SmallVal(off)

\* C23: RETURNDATACOPY fails with the memory-bounds error exactly when the
\* range of return data it is asked for ends past the return data, and leaves
\* the memory as it was; otherwise it extends the memory to cover the
\* destination and copies exactly the bytes asked for to the memory offset;
\* RETURNDATASIZE pushes the length of the return data
C23_ReturnDataCopy ==
    /\ [][(Fetching(RETURNDATACOPY) /\ Len(Top.stack) >= 3)
          => IF ~InsideData(Top.return_data, Arg(2), Arg(3))
             THEN /\ panic' = "return data too short"
                  /\ After.memmory = Top.memmory
             ELSE /\ panic' # "return data too short"
                  /\ Addressable(Arg(1), Arg(3))
                       => LET mo == SmallVal(Arg(1))
                              ro == SmallVal(Arg(2))
                              ln == SmallVal(Arg(3))
                          IN  /\ panic' = NoPanic
                              /\ After.stack = SubSeq(Top.stack, 1, Len(Top.stack) - 3)
                              /\ Len(After.memmory) = Max(Len(Top.memmory), mo + ln)
                              /\ \A i \in 1..Len(After.memmory) :
                                    After.memmory[i]
                                       = IF i > mo /\ i <= mo + ln
                                         THEN Top.return_data[ro + i - mo]
                                         ELSE IF i <= Len(Top.memmory) THEN Top.memmory[i]
                                         ELSE 0]_vars
    /\ [][Fetching(RETURNDATASIZE)
          => /\ panic' = NoPanic
             /\ After.stack = Append(Top.stack, FromNat(Len(Top.return_data)))]_vars

\* the LOG opcode with N topics
LogOp(N) == LOG0 + N

\* C24: LOGN, N in 0..4, on a stack of N+2 words or more and a memory range
\* inside the memory, pops the offset, the size and N topic words and nothing
\* else, and appends one entry with the executing address, the memory bytes
\* offset..offset+size as data and the N popped words, in the order popped,
\* as topics
C24_LogPopsItsTopics ==
    [][\A N \in 0..4 :
         (Fetching(LogOp(N)) /\ Len(Top.stack) >= N + 2
          /\ Addressable(Arg(1), Arg(2))
          /\ SmallVal(Arg(1)) + SmallVal(Arg(2)) <= Len(Top.memmory)
          /\ SmallVal(Arg(2)) <= WordBytes)
            => /\ panic' = NoPanic
               /\ After.stack = SubSeq(Top.stack, 1, Len(Top.stack) - (N + 2))
               /\ Len(After.log) = Len(Top.log) + 1
               /\ SubSeq(After.log, 1, Len(Top.log)) = Top.log
               /\ LET entry == After.log[Len(After.log)]
                  IN  /\ entry.address = Top.transaction.this_addr
                      /\ entry.data = FromBigEndian(SubSeq(Top.memmory, SmallVal(Arg(1)) + 1,
                                                    SmallVal(Arg(1)) + SmallVal(Arg(2))))
                      /\ entry.topics = [i \in 1..N |-> Arg(2 + i)]]_vars

\* C25: MSTORE8 with the offset k and the word w completes without a fault,
\* makes byte k of the memory the low-order byte of w, leaves every other
\* byte the memory had as it was, and leaves the memory at least k+32 bytes
\* long, the added bytes but byte k being zero
C25_StoreByte ==
    [][(Fetching(MSTORE8) /\ Len(Top.stack) >= 2 /\ Reaches(Arg(1), WordBytes))
       => LET k == SmallVal(Arg(1))
          IN  /\ panic' = NoPanic
              /\ After.stack = SubSeq(Top.stack, 1, Len(Top.stack) - 2)
              /\ Len(After.memmory) = Max(Len(Top.memmory), k + WordBytes)
              /\ \A i \in 1..Len(After.memmory) :
                    After.memmory[i]
                       = IF i = k + 1 THEN Arg(2)[WordBytes]
                         ELSE IF i <= Len(Top.memmory) THEN Top.memmory[i]
                         ELSE 0]_vars

\* the opcodes that only read the memory range they are given
MemoryReaders == {MLOAD, SHA3, LOG0, LOG1, LOG3, LOG4, RETURN, REVERT}

\* C26: an opcode that reads or writes the memory range offset..offset+size
\* first extends the memory with zero bytes to offset+size: it leaves the
\* memory at least that long, a reader leaves it as it was but for the zero
\* bytes added, and none faults because the range ends past the memory; the
\* same holds of the input region when CALL or STATICCALL invokes the target
\* and of the output region when the target returns
C26_AccessExtendsMemory ==
    /\ [][(Running /\ Op \in MemoryOps /\ Len(Top.stack) >= AccessDepth(Op)
           /\ Addressable(AccessOffset(Op), AccessSize(Op)))
          => LET end == SmallVal(AccessOffset(Op)) + SmallVal(AccessSize(Op))
             IN  /\ panic' = NoPanic => Len(After.memmory) >= end
                 /\ Op \in MemoryReaders
                       => /\ panic' # SliceRange
                          /\ After.memmory = ZeroExtended(Top.memmory, end)]_vars
    /\ [][(Spawns(CALL) /\ Addressable(Arg(4), Arg(5)))
          => After.memmory = ZeroExtended(Top.memmory, SmallVal(Arg(4)) + SmallVal(Arg(5)))]_vars
    /\ [][(Spawns(STATICCALL) /\ Addressable(Arg(3), Arg(4)))
          => After.memmory = ZeroExtended(Top.memmory, SmallVal(Arg(3)) + SmallVal(Arg(4)))]_vars
    /\ [][(Returning /\ panic' = NoPanic)
          => Len(ParentAfter.memmory)
                >= Parent.pending.mem_out_start + Parent.pending.mem_out_size]_vars

\* what a read of key k of storage gives
Stored(storage, k) == IF k \in DOMAIN storage THEN storage[k] ELSE U256Zero

\* C27: SSTORE pops the key, then the value, and changes what is stored at
\* that key alone; SLOAD of a key pushes what is stored at it, the zero word
\* when nothing is; no other opcode changes the storage of the machine that
\* executes it. So SLOAD pushes the value of the most recent SSTORE to its
\* key: after storing 5 and 7 at key 9 and 1 at key 8, loading 9 and 3 leaves
\* the stack 7, 0
C27_StorageReadsLastWrite ==
    /\ [][(Fetching(SSTORE) /\ Len(Top.stack) >= 2)
          => /\ panic' = NoPanic
             /\ After.stack = SubSeq(Top.stack, 1, Len(Top.stack) - 2)
             /\ DOMAIN After.storage = DOMAIN Top.storage \cup {Arg(1)}
             /\ After.storage[Arg(1)] = Arg(2)
             /\ \A k \in DOMAIN Top.storage \ {Arg(1)} : After.storage[k] = Top.storage[k]]_vars
    /\ [][(Fetching(SLOAD) /\ Len(Top.stack) >= 1)
          => /\ panic' = NoPanic
             /\ After.stack = SubSeq(Top.stack, 1, Len(Top.stack) - 1)
                                 \o <<Stored(Top.storage, Arg(1))>>]_vars
    /\ [][(Running /\ Op # SSTORE) => After.storage = Top.storage]_vars
    /\ [](frames[1].code = StorageExample
            => /\ panic = NoPanic
               /\ frames[1].pc = Len(frames[1].code) => frames[1].stack = <<FromNat(7), U256Zero>>)

C27_Witness ==
    /\ frames[1].code = StorageExample
    /\ frames[1].pc = Len(frames[1].code)
    /\ frames[1].stack = <<FromNat(7), U256Zero>>
    /\ Stored(frames[1].storage, FromNat(8)) = FromNat(1)

\* C28: the nested machine of a CALL or STATICCALL starts with an empty
\* storage, whatever its parent has stored, so that every SLOAD before its
\* first SSTORE pushes zero; and no step of a nested machine, and no return
\* of one, changes the storage of a machine below it: a parent that stored 5
\* at key 9 before the call loads 5 from key 9 after it
C28_NestedStorageIsFresh ==
    /\ [][\A op \in {CALL, STATICCALL} : Spawns(op) => DOMAIN Nested.storage = {}]_vars
    /\ [][(Len(frames) >= 2 /\ Len(frames') >= Len(frames) - 1)
          => \A i \in 1..(Len(frames) - 1) : frames'[i].storage = frames[i].storage]_vars
    /\ [](\A op \in {CALL, STATICCALL} :
            (frames[1].code = StorageAcrossCall(op) /\ Len(frames) = 1
             /\ frames[1].pc = Len(frames[1].code) /\ panic = NoPanic)
               => frames[1].stack = <<U256One, FromNat(5)>>)

C28_Witness ==
    /\ Len(frames) = 2
    /\ frames[1].storage = [k \in {FromNat(9)} |-> FromNat(5)]
    /\ DOMAIN frames[2].storage = {}
    /\ frames[2].pc > 0

\* C29: JUMPI pops a target, then a condition. With a condition other than 0
\* it does what JUMP does with the target: the target becomes the program
\* counter when it is in the code and in the valid-jump set, and the jump
\* fails with invalid jump destination when it is not. With the condition 0
\* the program counter stays past the JUMPI and nothing fails, whatever the
\* target
C29_ConditionalJump ==
    [][(Fetching(JUMPI) /\ Len(Top.stack) >= 2)
       => IF IsZero(Arg(2))
          THEN /\ panic' = NoPanic
               /\ After.pc = Top.pc + 1
               /\ After.stack = SubSeq(Top.stack, 1, Len(Top.stack) - 2)
          ELSE IF ValidTarget(Top, Arg(1))
          THEN /\ panic' = NoPanic
               /\ After.pc = SmallVal(Arg(1))
               /\ After.stack = SubSeq(Top.stack, 1, Len(Top.stack) - 2)
          ELSE /\ panic' = InvalidJump
               /\ After.pc = Top.pc + 1]_vars

\* the operands of an opcode, depth words from the top, all fit 64 bits
OperandsFit(depth) == \A i \in 1..depth : ~AsU64Fails(Arg(i))

\* C30: BALANCE, EXTCODESIZE, EXTCODECOPY, EXTCODEHASH, CALL and STATICCALL
\* given an address that is no key of the ledger fail with the
\* unknown-account error and leave the ledger as it was, and so does a CALL
\* by a machine whose own account is absent; a CALL whose own account and
\* target are in the ledger does not fail with it
C30_UnknownAccount ==
    /\ [][\A op \in {BALANCE, EXTCODESIZE, EXTCODEHASH} :
            (Fetching(op) /\ Len(Top.stack) >= 1 /\ Arg(1) \notin DOMAIN Top.account_db)
               => /\ panic' = UnwrapNone
                  /\ After.account_db = Top.account_db]_vars
    /\ [][(Fetching(EXTCODECOPY) /\ Len(Top.stack) >= 4 /\ OperandsFit(4)
           /\ Arg(1) \notin DOMAIN Top.account_db)
          => /\ panic' = UnwrapNone
             /\ After.account_db = Top.account_db]_vars
    /\ [][(Fetching(STATICCALL) /\ Len(Top.stack) >= 6 /\ OperandsFit(6)
           /\ Arg(2) \notin DOMAIN Top.account_db)
          => /\ panic' = UnwrapNone
             /\ After.account_db = Top.account_db
             /\ Len(frames') = Len(frames)]_vars
    /\ [][(Fetching(CALL) /\ Len(Top.stack) >= 7 /\ ~Top.is_static /\ OperandsFit(7)
           /\ (Arg(2) \notin DOMAIN Top.account_db
               \/ Top.transaction.this_addr \notin DOMAIN Top.account_db))
          => /\ panic' = UnwrapNone
             /\ After.account_db = Top.account_db
             /\ Len(frames') = Len(frames)]_vars
    /\ [][PlainCall => panic' # UnwrapNone]_vars

\* the opcodes that read one word of the block, the context or the machine
PureReads ==
    {COINBASE, TIMESTAMP, NUMBER, PREVRANDAO, GASLIMIT, CHAINID, SELFBALANCE, BASEFEE,
     ADDRESS, ORIGIN, CALLER, CALLVALUE, PC, GAS}

\* the word such an opcode reads in the machine m that has fetched it
ReadWord(op, m) ==
    CASE op = COINBASE -> current_block.coinbase
      [] op = TIMESTAMP -> FromNat(current_block.timestamp)
      [] op = NUMBER -> FromNat(current_block.number)
      [] op = PREVRANDAO -> current_block.prevrandao
      [] op = GASLIMIT -> FromNat(current_block.gaslimit)
      [] op = CHAINID -> FromNat(current_block.chainid)
      [] op = SELFBALANCE -> FromNat(current_block.selfbalance)
      [] op = BASEFEE -> FromNat(current_block.basefee)
      [] op = ADDRESS -> m.transaction.this_addr
      [] op = ORIGIN -> m.transaction.origin
      [] op = CALLER -> m.transaction.caller
      [] op = CALLVALUE -> FromNat(m.transaction.value)
      [] op = PC -> FromNat(m.pc)
      [] op = GAS -> FromNat(m.transaction.gas_limit - m.gas_used)

\* C31: each of COINBASE, TIMESTAMP, NUMBER, PREVRANDAO, GASLIMIT, CHAINID,
\* SELFBALANCE, BASEFEE, ADDRESS, ORIGIN, CALLER, CALLVALUE, PC and GAS, in
\* whatever state it is fetched, does not fail, pushes the one word it reads,
\* and changes nothing else but the program counter
C31_PureReads ==
    [][\A op \in PureReads :
         Fetching(op)
            => /\ panic' = NoPanic
               /\ After = [Fetched EXCEPT !.stack = Append(Top.stack, ReadWord(op, Top))]]_vars

\* C32: the success flag of a machine is true when the machine is created, an
\* instruction that does not fail changes it only if it is REVERT or INVALID,
\* which make it false, and the return of a nested machine leaves the flag
\* of the parent as it was; so a run that ends without a fatal error ends
\* with a false flag exactly when it executed REVERT or INVALID, and a CALL
\* that pushed 0 for want of balance or for a failed nested machine leaves it
\* true
C32_SuccessFlag ==
    /\ [][\A op \in {CALL, STATICCALL} : Spawns(op) => Nested.success]_vars
    /\ [][(Running /\ panic' = NoPanic)
          => After.success = (Top.success /\ Op \notin {REVERT, INVALID})]_vars
    /\ [][(Returning /\ panic' = NoPanic) => ParentAfter.success = Parent.success]_vars

\* C34: the stack of every machine holds at most 1024 words in every state
C34_StackDepth == \A i \in 1..Len(frames) : Len(frames[i].stack) <= 1024

\* C35: every run ends, normally or with a failure: the outermost machine returns or the
\* process panics
C35_Terminates == <>Done

\* the n bytes that follow the opcode at the program counter of m
Payload(m, n) == SubSeq(m.code, m.pc + 2, m.pc + 1 + n)

\* C36: PUSHn, n in 1..32, with n bytes left after the opcode pushes the word
\* whose big-endian encoding ends with these n bytes after 32 - n zero bytes, and
\* leaves the program counter on the byte after them, so that the next fetch
\* skips them; with fewer than n bytes left it fails, and the program counter
\* is not beyond the end of the code
C36_PushImmediate ==
    [][\A n \in 1..32 :
         Fetching(PUSH1 + n - 1)
            => IF Top.pc + 1 + n <= Len(Top.code)
               THEN /\ panic' # SliceRange
                    /\ Len(After.stack) = Len(Top.stack) + 1
                    /\ SubSeq(After.stack, 1, Len(Top.stack)) = Top.stack
                    /\ LET w == After.stack[Len(After.stack)]
                       IN  /\ Len(w) = WordBytes
                           /\ SubSeq(w, WordBytes - n + 1, WordBytes) = Payload(Top, n)
                           /\ \A i \in 1..(WordBytes - n) : w[i] = 0
                    /\ After.pc = Top.pc + 1 + n
               ELSE /\ panic' = SliceRange
                    /\ After.pc <= Len(After.code)]_vars

\* PUSH20 with its twenty bytes has run
C36_Witness ==
    /\ panic = NoPanic
    /\ Len(frames) = 1
    /\ Len(frames[1].code) >= 21
    /\ frames[1].code[1] = PUSH1 + 19
    /\ frames[1].pc = 21
    /\ Len(frames[1].stack) = 1
    /\ SubSeq(frames[1].stack[1], 13, 32) = SubSeq(frames[1].code, 2, 21)

\* C37: GAS pushes the gas limit of the context minus the gas the machine has
\* accumulated, and leaves the accumulated gas alone; while the process has not
\* panicked no machine has accumulated more than its limit, so the subtraction
\* cannot underflow; no step lowers the accumulated gas of a machine
C37_GasRemaining ==
    /\ [][Fetching(GAS)
          => /\ panic' = NoPanic
             /\ After.stack
                  = Append(Top.stack, FromNat(Top.transaction.gas_limit - Top.gas_used))
             /\ After.gas_used = Top.gas_used]_vars
    /\ [](panic = NoPanic
          => \A i \in 1..Len(frames) : frames[i].gas_used <= frames[i].transaction.gas_limit)
    /\ [][\A i \in 1..Min(Len(frames), Len(frames')) :
            frames'[i].gas_used >= frames[i].gas_used]_vars

\* GAS has run after instructions that were charged
C37_Witness ==
    /\ panic = NoPanic
    /\ Len(frames) = 1
    /\ frames[1].pc > 0
    /\ frames[1].code[frames[1].pc] = GAS
    /\ frames[1].gas_used > 0
    /\ Len(frames[1].stack) > 0
    /\ frames[1].stack[Len(frames[1].stack)]
         = FromNat(frames[1].transaction.gas_limit - frames[1].gas_used)

\* C38: every machine beneath a machine in static mode, and every machine
\* beneath a machine that waits for its STATICCALL to return, is in static mode
C38_StaticInherited ==
    \A i \in 1..Len(frames) : \A j \in (i + 1)..Len(frames) :
        (frames[i].is_static \/ frames[i].pending.kind = "static_call")
           => frames[j].is_static

\* what a CALL or STATICCALL must leave alone in the machine that executes it
Untouched(before, after) ==
    /\ after.storage = before.storage
    /\ after.log = before.log
    /\ after.return_data = before.return_data
    /\ after.gas_used = before.gas_used
    /\ after.success = before.success

\* the accounts whose balance differs between two ledgers
Moved(before, after) ==
    {a \in DOMAIN before : after[a].balance # before[a].balance}

\* C39: a CALL or STATICCALL that does not panic leaves the storage, the log,
\* the return data, the accumulated gas and the success flag of its machine as
\* they were, when it is fetched and when the nested machine returns; the fetch
\* pops the operands and moves the program counter by one, keeps the memory as
\* a prefix, keeps the accounts, their codes and nonces, and changes at most two
\* balances (none for STATICCALL); the return pushes one word and leaves the
\* program counter and the ledger alone; no step of a nested machine changes a
\* machine beneath it
C39_CallFrame ==
    /\ [][\A op \in {CALL, STATICCALL} :
            (Fetching(op) /\ panic' = NoPanic)
               => /\ Untouched(Top, After)
                  /\ After.pc = Top.pc + 1
                  /\ Len(After.memmory) >= Len(Top.memmory)
                  /\ SubSeq(After.memmory, 1, Len(Top.memmory)) = Top.memmory
                  /\ DOMAIN After.account_db = DOMAIN Top.account_db
                  /\ \A a \in DOMAIN Top.account_db :
                        /\ After.account_db[a].code = Top.account_db[a].code
                        /\ After.account_db[a].nonce = Top.account_db[a].nonce
                  /\ Cardinality(Moved(Top.account_db, After.account_db))
                        <= (IF op = CALL THEN 2 ELSE 0)
                  /\ Spawns(op)
                        => After.stack = SubSeq(Top.stack, 1,
                                                Len(Top.stack) - (IF op = CALL THEN 7 ELSE 6))]_vars
    /\ [][(Returning /\ panic' = NoPanic)
          => /\ Untouched(Parent, ParentAfter)
             /\ ParentAfter.pc = Parent.pc
             /\ ParentAfter.account_db = Parent.account_db
             /\ Len(ParentAfter.stack) = Len(Parent.stack) + 1
             /\ SubSeq(ParentAfter.stack, 1, Len(Parent.stack)) = Parent.stack]_vars
    /\ [][\A i \in 1..(Len(frames) - 1) : i < Len(frames') => frames'[i] = frames[i]]_vars

\* C40: in every state the program counter of every machine is between 0 and
\* the length of its code; a machine whose program counter has reached the
\* length of its code fetches nothing and returns; a JUMP or JUMPI that is
\* taken leaves the program counter below the length of the code
C40_ProgramCounter ==
    /\ [](\A i \in 1..Len(frames) :
             frames[i].pc >= 0 /\ frames[i].pc <= Len(frames[i].code))
    /\ [][(panic = NoPanic /\ Top.ctl = InLoop /\ Top.pc >= Len(Top.code))
          => /\ panic' = NoPanic
             /\ frames' = [frames EXCEPT ![Len(frames)].ctl = Returned]]_vars
    /\ [][\A op \in {JUMP, JUMPI} :
            (Fetching(op) /\ panic' = NoPanic /\ After.pc # Top.pc + 1)
               => After.pc < Len(Top.code)]_vars

\* a PUSH cut short by the end of the code has failed
C40_Witness ==
    /\ panic = SliceRange
    /\ Top.pc > 0
    /\ Top.pc <= Len(Top.code)
    /\ Top.code[Top.pc] \in PUSH1..PUSH32

====
